---- MODULE Spec2Model ----
(***************************************************************************)
(* Swap execution and transfer settlement of the custodial wallet bot.     *)
(*                                                                         *)
(* Spec          : JupiterService (services/jupiter_service.py): one call  *)
(*                 of get_best_route, perform_swap, execute_swap or        *)
(*                 execute_sell, one action per network round trip.        *)
(* SpecTransfer  : SolanaService.send_sol / send_spl_token driven by       *)
(*                 handlers/withdraw.py confirm_withdrawal.                *)
(* SpecClient    : the retry helpers send_transaction_with_retry and       *)
(*                 confirm_transaction_with_retry (services/               *)
(*                 solana_client.py) and get_blockhash_with_retry.         *)
(* SpecQuery     : the balance queries and get_token_decimals.             *)
(* SpecUnits     : to_lamports and from_lamports (utils.py).               *)
(*                                                                         *)
(* Conventions.  Slippage is carried in hundredths of a percent, the unit  *)
(* of the slippageBps request parameter (int(slippage * 100)).  A text is  *)
(* a sequence of tokens; a signature is one token.  The RPC client is the  *)
(* typed-response client the module imports (solders responses, objects    *)
(* with a .value attribute).                                               *)
(***************************************************************************)
EXTENDS Integers, Sequences, FiniteSets, TLC

----------------------------------------------------------------------------
(* Bounds of the model *)

MaxRetryBound == 2
MaxBalance == 12
MaxAmountInput == 3
\* fractional digits of the float amounts a user can enter
AmountDigits == 2
\* largest max_retries given to the retry helpers
MaxClientRetries == 3
\* calls of get_token_decimals in one process
MaxDecimalsCalls == 2
\* amounts given to to_lamports: coefficient and decimals of the asset
MaxAmountCoef == 25
MaxDecimals == 3
\* Telegram updates handled by the swap handlers
MaxUpdates == 2
\* withdraw conversation: largest balance, amounts confirmed, confirm callbacks
MaxWithdraw == 2
MaxConfirmations == 2
MaxConfirmCallbacks == 2
\* key pairs generated for one user
MaxWallets == 3
\* export confirmations handled
MaxExports == 3

----------------------------------------------------------------------------
(* Program constants *)

SOL_MINT == "So11111111111111111111111111111111111111112"
BONK_MINT == "DezXAZ8z7PnrnRJjz3wXBoRgixCa6xjnB7YaB1pPB263"
USDC_MINT == "EPjFWdd5AufqSSqeM2qN1xzybapC8G4wEGGkZwyTDt1v"
USDT_MINT == "Es9vMFrzaCERmJfrF4H2FYD4KCoNkY11McCe8BenwNYB"
RAY_MINT == "4k3Dyjzvzp8eMZWUXbBCjEvwSkkk59S5iCNLY3QrkX6R"
JUPITER_PLATFORM_FEE_BPS == 90
JUPITER_PLATFORM_FEE_ACCOUNT == "CSBQ7WT45JS8nrn9nXi2K4FVmpxd2Bq7BDT1x3ECi5p4"
SOLSCAN_TX_PREFIX == "https://solscan.io/tx/"

\* utils.py, in hundredths of a percent
DEFAULT_SLIPPAGE == 100
MIN_SLIPPAGE == 10
MAX_SLIPPAGE == 1000

\* perform_swap(max_retries=2)
DefaultMaxRetries == 2
DefaultBlockhashRetries == 3
DefaultClientRetries == 3
\* execute_swap: bonk_slippage 10.0 / 1.0 ; execute_sell: 1.0 / 3.0
BonkSlippage == 1000
BuySlippage == 100
SellStableSlippage == 100
SellOtherSlippage == 300

NoneVal == "None"
BadAddress == "not-a-pubkey"
UserWallet == "7xKXtg2CW87d97TXJSDpbD5jBkheTqA83TZRuJosgAsU"

\* the symbol table of config.SOLANA_TOKEN_ADDRESSES
SOLANA_TOKEN_ADDRESSES ==
    [s \in {"SOL", "USDC", "RAY"} |->
        CASE s = "SOL" -> SOL_MINT
          [] s = "USDC" -> USDC_MINT
          [] s = "RAY" -> RAY_MINT]

\* PublicKey(x) succeeds
PublicKey(a) == a \in {SOL_MINT, BONK_MINT, USDC_MINT, USDT_MINT, RAY_MINT, UserWallet}

----------------------------------------------------------------------------
VARIABLES
    entry,        \* the JupiterService method that was called
    pc,           \* the await the call is suspended at
    args,         \* arguments of perform_swap once it runs
    attempt,      \* loop variable of perform_swap
    quote_data,   \* id of the quote of this attempt (0: none)
    swap_transaction, \* id of the built transaction of this attempt (0: none)
    signature,    \* text returned by _send_swap_transaction
    quoteLog,     \* quote requests received by the aggregator
    buildLog,     \* quote ids posted to the swap-build endpoint
    signLog,      \* transaction ids signed
    submitLog,    \* transaction ids sent to the RPC
    pollLog,      \* statuses answered by get_signature_statuses
    sell,         \* locals of execute_sell
    result,       \* what the called method returned or raised
    route,        \* the route execute_swap was given
    caller,       \* SolanaService entry: confirm_withdrawal, send_sol, send_spl_token
    tpc,          \* the await the transfer is suspended at
    targs,        \* arguments of send_sol / send_spl_token
    destAccount,  \* on chain: the recipient's associated token account exists
    transaction,  \* the Transaction object being built
    phases,       \* executor phases the transfer went through
    rpcLog,       \* RPC methods called by the transfer
    sent,         \* transactions handed to send_transaction
    confirmed,    \* the signature was polled and found confirmed
    transferResult, \* what send_sol / send_spl_token returned or raised
    report,       \* what confirm_withdrawal told the user
    ledger,       \* log_transaction records
    request,      \* the retry helper that was called and its arguments
    cpc,          \* where the helper is: idle, in its loop, done
    cattempt,     \* loop variable `attempt` of the helper
    answers,      \* what the RPC answered to each attempt, in order
    sleeps,       \* seconds slept between attempts, in order
    outcome,      \* what the helper returned or raised
    lastQuery,    \* the last balance query: its answers, RPC calls and result
    decimalsCalls, \* the calls of get_token_decimals so far, in order
    upc,          \* unit conversion: idle, converted, restored
    amountIn,     \* the amount given to to_lamports
    lamports,     \* what to_lamports returned
    tokens,       \* what from_lamports returned
    hpc,          \* the await the handler is suspended at
    update,       \* the Telegram update being handled
    executions,   \* swaps the handlers sent for execution, with what each wrote to the ledger
    transactionLog, \* log_transaction records of the swap handlers
    handled,      \* updates handled so far
    position,     \* per user: the await its perform_swap is suspended at
    frames,       \* the locals of the perform_swap calls, by frame
    calls,        \* per user: the arguments perform_swap was called with
    responses,    \* per user: the external answers its call received, in order
    outcomes,     \* per user: what its perform_swap returned or raised
    service,      \* the fields of the shared JupiterService instance
    overlapped,   \* a step was taken while the other user's call was under way
    fsm,          \* the conversation state of the user's FSMContext
    data,         \* the data of the user's FSMContext
    entered,      \* address / amount were entered since the last token selection
    confirmation, \* number of the confirmation the stored amount was entered for
    running,      \* confirm_withdrawal calls awaiting their transfer, with their locals
    submitted,    \* transfers that reached send_transaction
    confirms,     \* withdraw_confirm callbacks delivered so far
    stored,       \* the user's wallet record in the store
    generated,    \* key pairs generated for the user so far
    gpc,          \* get_wallet: idle, or before the save of the migration
    wallet_data,  \* get_wallet: the record it read
    spc,          \* encrypt_user_private_key: idle, or before its save
    script_data,  \* encrypt_user_private_key: the record it read
    returned,     \* what get_wallet has returned
    migrations,   \* saves made by the two migrations
    sellAll,      \* the sale of a whole balance: screen, request, answer
    export_state, \* FSM state of the export conversation
    epc,          \* position of process_export_confirmation
    key_messages, \* the chat messages that carry the key: shown or deleted
    warning_message, \* the 30 seconds notice: none, shown or deleted
    exported      \* confirmations handled so far

swapVars == <<entry, pc, args, attempt, quote_data, swap_transaction, signature,
              quoteLog, buildLog, signLog, submitLog, pollLog, sell, result, route>>

transferVars == <<caller, tpc, targs, destAccount, transaction, phases, rpcLog, sent,
                  confirmed, transferResult, report, ledger>>

clientVars == <<request, cpc, cattempt, answers, sleeps, outcome>>

queryVars == <<lastQuery, decimalsCalls>>

unitVars == <<upc, amountIn, lamports, tokens>>

handlerVars == <<hpc, update, executions, transactionLog, handled>>

concurrentVars == <<position, frames, calls, responses, outcomes, service, overlapped>>

withdrawVars == <<fsm, data, entered, confirmation, running, submitted, confirms>>

walletVars == <<stored, generated, gpc, wallet_data, spc, script_data, returned, migrations>>

sellAllVars == <<sellAll>>

exportVars == <<export_state, epc, key_messages, warning_message, exported>>

vars == <<swapVars, transferVars, clientVars, queryVars, unitVars, handlerVars, concurrentVars,
    withdrawVars, walletVars, sellAllVars, exportVars>>

\* what a step of one service leaves alone in the others
nonSwapVars == <<transferVars, clientVars, queryVars, unitVars, handlerVars, concurrentVars,
    withdrawVars, walletVars, sellAllVars, exportVars>>
nonTransferVars == <<swapVars, clientVars, queryVars, unitVars, handlerVars, concurrentVars,
    withdrawVars, walletVars, sellAllVars, exportVars>>
nonClientVars == <<swapVars, transferVars, queryVars, unitVars, handlerVars, concurrentVars,
    withdrawVars, walletVars, sellAllVars, exportVars>>
nonQueryVars == <<swapVars, transferVars, clientVars, unitVars, handlerVars, concurrentVars,
    withdrawVars, walletVars, sellAllVars, exportVars>>
nonUnitVars == <<swapVars, transferVars, clientVars, queryVars, handlerVars,
                 concurrentVars,
    withdrawVars, walletVars, sellAllVars, exportVars>>
nonHandlerVars == <<swapVars, transferVars, clientVars, queryVars, unitVars,
                    concurrentVars,
    withdrawVars, walletVars, sellAllVars, exportVars>>
nonConcurrentVars == <<swapVars, transferVars, clientVars, queryVars, unitVars,
                       handlerVars,
    withdrawVars, walletVars, sellAllVars, exportVars>>
nonWithdrawVars == <<swapVars, transferVars, clientVars, queryVars, unitVars,
    handlerVars, concurrentVars, walletVars, sellAllVars, exportVars>>
nonWalletVars == <<swapVars, transferVars, clientVars, queryVars, unitVars,
    handlerVars, concurrentVars, withdrawVars, sellAllVars, exportVars>>
nonSellAllVars == <<swapVars, transferVars, clientVars, queryVars, unitVars,
    handlerVars, concurrentVars, withdrawVars, walletVars, exportVars>>
nonExportVars == <<swapVars, transferVars, clientVars, queryVars, unitVars,
    handlerVars, concurrentVars, withdrawVars, walletVars, sellAllVars>>

----------------------------------------------------------------------------
(* Results *)

NoResult == [kind |-> "none", reason |-> "", text |-> <<>>]
Returned(k, t) == [kind |-> k, reason |-> "", text |-> t]
Failed(k, r) == [kind |-> k, reason |-> r, text |-> <<>>]

\* str() of a solders Signature: its base-58 text
SignatureStr(sigObj) == <<sigObj.b58>>

\* _send_swap_transaction, lines 406-410
SignatureOf_StrOfResponse(tx_sig) ==
    IF tx_sig.shape = "str" THEN <<tx_sig.s>>
    ELSE <<"SendTransactionResp(", "Signature(", tx_sig.value.b58, ")", ")">>

SignatureOf(tx_sig) ==
    IF tx_sig.shape = "str" THEN <<tx_sig.s>>
    ELSE IF tx_sig.shape = "value" THEN SignatureStr(tx_sig.value)
    ELSE <<"SendTransactionResp(", "Signature(", tx_sig.value.b58, ")", ")">>

\* 'Signature(' in text
HasSignatureRepr(t) == \E i \in 1..Len(t) : t[i] = "Signature("

\* text.split('Signature(')[1].split(')')[0]
RECURSIVE UpToParen(_)
UpToParen(t) ==
    IF t = <<>> \/ Head(t) = ")" THEN <<>>
    ELSE <<Head(t)>> \o UpToParen(Tail(t))

ExtractSignature(t) ==
    LET i == CHOOSE k \in 1..Len(t) :
                 t[k] = "Signature(" /\ \A j \in 1..(k-1) : t[j] # "Signature("
    IN UpToParen(SubSeq(t, i + 1, Len(t)))

\* execute_swap, lines 496-506
SwapUrl(sig) ==
    LET tx_signature == IF HasSignatureRepr(sig) THEN ExtractSignature(sig) ELSE sig
    IN <<SOLSCAN_TX_PREFIX>> \o tx_signature

\* execute_sell, lines 760-775: perform_swap returns a str, used as is
SellUrl(sig) == <<SOLSCAN_TX_PREFIX>> \o sig

\* handlers: tx_url.startswith("❌ Ошибка") -> error, else success
Reported(r) ==
    IF r.kind = "Error" THEN "Failed"
    ELSE IF r.kind = "Link" THEN "Success"
    ELSE "none"

\* handlers: tx_signature = tx_url.split('/')[-1]
LastSegment(url) == IF url = <<>> THEN <<>> ELSE Tail(url)

----------------------------------------------------------------------------
(* Inputs and answers of the environment *)

\* user_private_key as stored: Fernet token of a base-58 key, a bare base-58
\* key (old format), or a text that is neither
SwapCredentials == {"encrypted_b58", "plain_b58", "garbage"}

\* decrypt_private_key with the fallback of lines 380-387, then
\* base58.b58decode and Keypair.from_secret_key succeed
KeypairFromBase58(cred) == cred \in {"encrypted_b58", "plain_b58"}

SlippageInputs == {5, 50, 100, 1000, 1500}
DecimalsSet == {0, 2, 3}
QuoteAnswers == {"ok", "http_error", "error_body"}
RouteAnswers == {"ok", "http_error", "empty", "no_route_plan"}
BuildAnswers == {"ok", "undecodable", "http_error", "short"}
SubmitAnswers == {"ok", "rpc_error"}
PollStatuses == {"confirmed", "pending", "err", "rpc_error"}

\* the signature of a transaction is fixed by the signed transaction
SigNames == <<"5VERv8NMvzbJMEkV", "3AsdoALgZFuq2oUV", "2nBhEBYYvfaAe16U", "4fYNw3dojWmQ4dXt", "61nFzmnLZc4dJFQZ">>
TxSignature(id) == [b58 |-> SigNames[id]]

NoArgs == [input_mint |-> NoneVal, output_mint |-> NoneVal, amount |-> 0,
           slippage |-> 0, max_retries |-> 0, cred |-> NoneVal]
NoSell == [token_address |-> NoneVal, amount |-> [kind |-> "int", n |-> 0],
           balance |-> 0, decimals |-> 0, requested |-> 0, min_balance |-> 0,
           raw_amount |-> 0, slippage |-> 0, cred |-> NoneVal]
NoTx == [id |-> 0, ok |-> FALSE]
NoRoute == [inputMint |-> NoneVal, outputMint |-> NoneVal, inAmount |-> 0]

RECURSIVE Pow10(_)
Pow10(d) == IF d = 0 THEN 1 ELSE 10 * Pow10(d - 1)

\* a float amount is carried as a count of 10^-AmountDigits tokens
AmountScale == Pow10(AmountDigits)

\* execute_sell, lines 673-687: int is taken as raw, float is scaled and truncated
RawAmount(amount, decimals) ==
    IF amount.kind = "int" THEN amount.n
    ELSE (amount.n * Pow10(decimals)) \div AmountScale

\* execute_sell, line 710: int(0.01 * (10 ** token_decimals))
MinBalance(decimals) == Pow10(decimals) \div 100

\* execute_sell, lines 711-712
CappedAmount_Uncapped(raw_amount, balance, decimals) == raw_amount

CappedAmount(raw_amount, balance, decimals) ==
    IF balance - raw_amount < MinBalance(decimals)
    THEN balance - MinBalance(decimals)
    ELSE raw_amount

\* execute_sell, line 702: the request is above the balance
ExceedsBalance_OffByOne(raw_amount, balance) == raw_amount > balance + 1

ExceedsBalance(raw_amount, balance) == raw_amount > balance

\* execute_sell, lines 720-725
SellSlippage(token_address) ==
    IF token_address \notin {USDC_MINT, USDT_MINT} THEN SellOtherSlippage
    ELSE SellStableSlippage

\* execute_swap, lines 478-484
SwapSlippage(output_mint) ==
    IF output_mint = BONK_MINT THEN BonkSlippage ELSE BuySlippage

\* utils.validate_slippage: TRUE when it returns, FALSE when it raises
validate_slippage(slip) == ~(slip < MIN_SLIPPAGE \/ slip > MAX_SLIPPAGE)

\* perform_swap, lines 206-217
PerformSwapArgs(token, amount, cred, slippage, max_retries, is_selling) ==
    LET input_mint == IF is_selling THEN token ELSE SOL_MINT
        output_mint == IF is_selling THEN SOL_MINT ELSE token
        is_bonk == ~is_selling /\ output_mint = BONK_MINT
    IN [input_mint |-> input_mint, output_mint |-> output_mint, amount |-> amount,
        slippage |-> IF is_bonk THEN BonkSlippage ELSE slippage,
        max_retries |-> max_retries, cred |-> cred]

\* the query of get_best_route, lines 98-105
BestRouteRequest(input_mint, output_mint, amount, slippage, answer) ==
    [path |-> "get_best_route", inputMint |-> input_mint, outputMint |-> output_mint,
     amount |-> amount, slippageBps |-> slippage,
     platformFeeBps |-> JUPITER_PLATFORM_FEE_BPS,
     platformFeeAccount |-> JUPITER_PLATFORM_FEE_ACCOUNT, answer |-> answer]

\* the query of _get_quote, lines 278-286
QuoteRequest_NoFee(a, answer) ==
    [path |-> "_get_quote", inputMint |-> a.input_mint, outputMint |-> a.output_mint,
     amount |-> a.amount, slippageBps |-> a.slippage,
     platformFeeBps |-> 0, platformFeeAccount |-> NoneVal, answer |-> answer]

QuoteRequest(a, answer) ==
    [path |-> "_get_quote", inputMint |-> a.input_mint, outputMint |-> a.output_mint,
     amount |-> a.amount, slippageBps |-> a.slippage,
     platformFeeBps |-> JUPITER_PLATFORM_FEE_BPS,
     platformFeeAccount |-> JUPITER_PLATFORM_FEE_ACCOUNT, answer |-> answer]

----------------------------------------------------------------------------
(* JupiterService: one call *)

SwapInit ==
    /\ entry = "none"
    /\ pc = "idle"
    /\ args = NoArgs
    /\ attempt = 0
    /\ quote_data = 0
    /\ swap_transaction = NoTx
    /\ signature = <<>>
    /\ quoteLog = <<>>
    /\ buildLog = <<>>
    /\ signLog = <<>>
    /\ submitLog = <<>>
    /\ pollLog = <<>>
    /\ sell = NoSell
    /\ result = NoResult
    /\ route = NoRoute

\* the called method returns or raises
Finish(r) ==
    /\ pc' = "done"
    /\ result' = r

\* perform_swap raises: what its caller makes of it
\* (execute_swap lines 533-545, execute_sell lines 779-795)
PerformSwapRaised(msg) ==
    Finish(IF entry = "perform_swap" THEN Failed("Raised", msg)
           ELSE Failed("Error", msg))

\* perform_swap returns the signature (line 265): what its caller does next
\* (execute_swap lines 496-512 go on to the status check, execute_sell
\* lines 755-777 return the link)
PerformSwapReturned(sig) ==
    IF entry = "perform_swap" THEN Finish(Returned("Signature", sig))
    ELSE IF entry = "execute_swap" THEN pc' = "final_poll" /\ result' = result
    ELSE IF sig = <<>> THEN Finish(Failed("Error", "NoSignature"))
    ELSE Finish(Returned("Link", SellUrl(sig)))

\* perform_swap: `if attempt < max_retries - 1` (lines 233, 246, 259, 269)
MoreAttempts_Extra(att, max_retries) == att < max_retries

MoreAttempts(att, max_retries) == att < max_retries - 1

\* perform_swap: the next iteration of the loop starts over with the quote
\* (lines 219-229)
RetryFrom_Build == "build"

RetryFrom == "quote"

\* perform_swap, a step of the attempt produced nothing
\* (lines 231-236, 244-249, 257-262 and 267-272)
RetryOrRaise(msg) ==
    IF MoreAttempts(attempt, args.max_retries)
    THEN /\ attempt' = attempt + 1
         /\ pc' = RetryFrom
         /\ result' = result
    ELSE /\ attempt' = attempt
         /\ PerformSwapRaised(msg)

\* get_best_route called on its own (read-only preview)
get_best_route ==
    /\ pc = "idle"
    /\ \E output_mint \in {RAY_MINT, BadAddress}, slippage \in SlippageInputs :
         /\ entry' = "get_best_route"
         /\ args' = [NoArgs EXCEPT !.input_mint = SOL_MINT, !.output_mint = output_mint,
                                   !.amount = 1, !.slippage = slippage]
         /\ IF PublicKey(output_mint)
            THEN pc' = "route" /\ result' = result
            ELSE Finish(Failed("Raised", "InvalidAssetAddress"))
    /\ UNCHANGED <<attempt, quote_data, swap_transaction, signature, quoteLog,
                   buildLog, signLog, submitLog, pollLog, sell>>
    /\ UNCHANGED route
    /\ UNCHANGED nonSwapVars

\* get_best_route, the request and its answer (lines 109-124)
get_best_route_request ==
    /\ pc = "route"
    /\ \E answer \in {"ok", "http_error"} :
         /\ quoteLog' = Append(quoteLog,
                BestRouteRequest(args.input_mint, args.output_mint, args.amount,
                                 args.slippage, answer))
         /\ IF answer = "ok" THEN Finish(Returned("Route", <<>>))
            ELSE Finish(Failed("Raised", "AggregatorError"))
    /\ UNCHANGED <<entry, args, attempt, quote_data, swap_transaction, signature,
                   buildLog, signLog, submitLog, pollLog, sell>>
    /\ UNCHANGED route
    /\ UNCHANGED nonSwapVars

\* perform_swap called on its own, up to the first request
perform_swap ==
    /\ pc = "idle"
    /\ \E token \in {RAY_MINT, BONK_MINT, BadAddress}, slippage \in SlippageInputs,
          max_retries \in 1..MaxRetryBound, is_selling \in BOOLEAN,
          cred \in SwapCredentials :
         /\ entry' = "perform_swap"
         /\ args' = PerformSwapArgs(token, 1, cred, slippage, max_retries, is_selling)
    /\ attempt' = 0
    /\ pc' = "quote"
    /\ UNCHANGED <<quote_data, swap_transaction, signature, quoteLog, buildLog,
                   signLog, submitLog, pollLog, sell, result>>
    /\ UNCHANGED route
    /\ UNCHANGED nonSwapVars

\* execute_swap, up to the first request of perform_swap (lines 465-494)
execute_swap ==
    /\ pc = "idle"
    /\ entry' = "execute_swap"
    /\ \E inputMint \in {SOL_MINT, RAY_MINT},
          outputMint \in {RAY_MINT, BONK_MINT, SOL_MINT, BadAddress, NoneVal},
          inAmount \in {0, 1},
          cred \in SwapCredentials :
         /\ route' = [inputMint |-> inputMint, outputMint |-> outputMint,
                      inAmount |-> inAmount]
         /\ IF outputMint = NoneVal \/ inAmount = 0
            THEN /\ Finish(Failed("Error", "InvalidRoute"))
                 /\ UNCHANGED <<args, attempt>>
            ELSE /\ args' = PerformSwapArgs(outputMint, inAmount, cred,
                                SwapSlippage(outputMint), DefaultMaxRetries, FALSE)
                 /\ attempt' = 0
                 /\ pc' = "quote"
                 /\ result' = result
    /\ UNCHANGED <<quote_data, swap_transaction, signature, quoteLog, buildLog,
                   signLog, submitLog, pollLog, sell>>
    /\ UNCHANGED nonSwapVars

\* _get_quote returns the quote: status 200 and no "error" key (lines 295-310);
\* otherwise it returns None (lines 312-314)
QuoteUsable_StatusOnly(answer) == answer # "http_error"

QuoteUsable(answer) == answer = "ok"

\* _get_quote and the check of its result in perform_swap (lines 224-236, 274-314)
get_quote ==
    /\ pc = "quote"
    /\ \E answer \in QuoteAnswers :
         /\ quoteLog' = Append(quoteLog, QuoteRequest(args, answer))
         /\ IF QuoteUsable(answer)
            THEN /\ quote_data' = Len(quoteLog) + 1
                 /\ pc' = "build"
                 /\ UNCHANGED <<attempt, result>>
            ELSE /\ quote_data' = 0
                 /\ RetryOrRaise("QuoteFailed")
    /\ UNCHANGED <<entry, args, swap_transaction, signature, buildLog, signLog,
                   submitLog, pollLog, sell>>
    /\ UNCHANGED route
    /\ UNCHANGED nonSwapVars

\* _get_swap_transaction and the check of its result (lines 239-249, 316-363)
get_swap_transaction ==
    /\ pc = "build"
    /\ \E answer \in BuildAnswers :
         /\ buildLog' = Append(buildLog, [quote |-> quote_data, answer |-> answer])
         /\ IF answer \in {"ok", "undecodable"}
            THEN /\ swap_transaction' = [id |-> Len(buildLog) + 1, ok |-> answer = "ok"]
                 /\ pc' = "sign"
                 /\ UNCHANGED <<attempt, result>>
            ELSE /\ swap_transaction' = NoTx
                 /\ RetryOrRaise("BuildFailed")
    /\ UNCHANGED <<entry, args, quote_data, signature, quoteLog, signLog,
                   submitLog, pollLog, sell>>
    /\ UNCHANGED route
    /\ UNCHANGED nonSwapVars

\* _send_swap_transaction: decode, key, sign (lines 367-394); any failure
\* returns None (lines 441-443), which perform_swap treats as a failed send
send_swap_transaction_sign ==
    /\ pc = "sign"
    /\ IF swap_transaction.ok /\ KeypairFromBase58(args.cred)
       THEN /\ signLog' = Append(signLog, swap_transaction.id)
            /\ pc' = "submit"
            /\ UNCHANGED <<attempt, result>>
       ELSE /\ signLog' = signLog
            /\ RetryOrRaise("SubmissionFailed")
    /\ UNCHANGED <<entry, args, quote_data, swap_transaction, signature, quoteLog,
                   buildLog, submitLog, pollLog, sell>>
    /\ UNCHANGED route
    /\ UNCHANGED nonSwapVars

\* _send_swap_transaction: send_raw_transaction returned without raising and
\* the status check follows (lines 397-415)
SubmitAccepted_Always(answer) == TRUE

SubmitAccepted(answer) == answer = "ok"

\* _send_swap_transaction: send_raw_transaction (lines 396-413)
send_swap_transaction_submit ==
    /\ pc = "submit"
    /\ \E answer \in SubmitAnswers :
         /\ submitLog' = Append(submitLog, [tx |-> swap_transaction.id, answer |-> answer])
         /\ IF SubmitAccepted(answer)
            THEN /\ signature' = SignatureOf([shape |-> "value",
                                              value |-> TxSignature(swap_transaction.id)])
                 /\ pc' = "poll"
                 /\ UNCHANGED <<attempt, result>>
            ELSE /\ signature' = signature
                 /\ RetryOrRaise("SubmissionFailed")
    /\ UNCHANGED <<entry, args, quote_data, swap_transaction, quoteLog, buildLog,
                   signLog, pollLog, sell>>
    /\ UNCHANGED route
    /\ UNCHANGED nonSwapVars

\* _send_swap_transaction, lines 416-437: what the status check raises,
\* line 427 included, is caught at line 435 and never reaches line 441
ConfirmErrorPropagates_OnErr(status) == status = "err"

ConfirmErrorPropagates(status) == FALSE

\* _send_swap_transaction: the status check (lines 415-439).  The raise of
\* line 427 is caught at line 435; every answer ends in `return signature`.
send_swap_transaction_poll ==
    /\ pc = "poll"
    /\ \E status \in PollStatuses :
         /\ pollLog' = Append(pollLog, status)
         /\ IF ConfirmErrorPropagates(status)
            THEN RetryOrRaise("SubmissionFailed")
            ELSE PerformSwapReturned(signature) /\ attempt' = attempt
    /\ UNCHANGED <<entry, args, quote_data, swap_transaction, signature,
                   quoteLog, buildLog, signLog, submitLog, sell>>
    /\ UNCHANGED route
    /\ UNCHANGED nonSwapVars

\* execute_swap: the second status check (lines 509-531).  It only logs;
\* the link built at line 506 is returned whatever the answer.
execute_swap_final_poll ==
    /\ pc = "final_poll"
    /\ \E status \in PollStatuses :
         pollLog' = Append(pollLog, status)
    /\ Finish(Returned("Link", SwapUrl(signature)))
    /\ UNCHANGED <<entry, args, attempt, quote_data, swap_transaction, signature,
                   quoteLog, buildLog, signLog, submitLog, sell>>
    /\ UNCHANGED route
    /\ UNCHANGED nonSwapVars

\* amounts a handler passes to execute_sell: a raw int (sell by percent), a
\* float of tokens (sell by amount), or a value whose raw amount is above the
\* 10**18 ceiling of line 690
SellAmounts ==
    [kind : {"int", "float"}, n : 1..MaxAmountInput] \cup {[kind |-> "huge", n |-> 0]}

\* execute_sell, lines 651-655: a symbol is replaced by its address
ResolveToken(token_address) ==
    IF token_address \in DOMAIN SOLANA_TOKEN_ADDRESSES
    THEN SOLANA_TOKEN_ADDRESSES[token_address]
    ELSE token_address

\* execute_sell, up to the balance query (lines 605-666)
execute_sell ==
    /\ pc = "idle"
    /\ entry' = "execute_sell"
    /\ \E user_pubkey \in {UserWallet, BadAddress},
          token_address \in {USDC_MINT, "RAY", BadAddress},
          amount \in SellAmounts, cred \in SwapCredentials :
         IF ~PublicKey(user_pubkey)
         THEN Finish(Failed("Error", "InvalidWallet")) /\ sell' = sell
         ELSE IF ~PublicKey(ResolveToken(token_address))
         THEN Finish(Failed("Error", "InvalidToken")) /\ sell' = sell
         ELSE /\ sell' = [NoSell EXCEPT !.token_address = ResolveToken(token_address),
                                        !.amount = amount, !.cred = cred]
              /\ pc' = "balance"
              /\ result' = result
    /\ UNCHANGED <<args, attempt, quote_data, swap_transaction, signature, quoteLog,
                   buildLog, signLog, submitLog, pollLog>>
    /\ UNCHANGED route
    /\ UNCHANGED nonSwapVars

\* execute_sell, from the answer of get_token_balance to the request of
\* get_best_route (lines 666-735).  get_token_balance answers (0, 9) on error.
execute_sell_balance ==
    /\ pc = "balance"
    /\ \E token_balance_raw \in 0..MaxBalance, token_decimals \in DecimalsSet :
         LET raw_amount == RawAmount(sell.amount, token_decimals)
             capped == CappedAmount(raw_amount, token_balance_raw, token_decimals)
             seen == [sell EXCEPT !.balance = token_balance_raw,
                                  !.decimals = token_decimals,
                                  !.min_balance = MinBalance(token_decimals)]
         IN IF token_balance_raw = 0
            THEN Finish(Failed("Error", "BalanceUnavailable")) /\ sell' = seen
            ELSE IF sell.amount.kind = "huge"
            THEN Finish(Failed("Error", "InvalidAmount")) /\ sell' = seen
            ELSE IF ExceedsBalance(raw_amount, token_balance_raw)
            THEN /\ Finish(Failed("Error", "InsufficientBalance"))
                 /\ sell' = [seen EXCEPT !.requested = raw_amount]
            ELSE /\ sell' = [seen EXCEPT !.requested = raw_amount,
                                         !.raw_amount = capped,
                                         !.slippage = SellSlippage(sell.token_address)]
                 /\ pc' = "sell_route"
                 /\ result' = result
    /\ UNCHANGED <<entry, args, attempt, quote_data, swap_transaction, signature,
                   quoteLog, buildLog, signLog, submitLog, pollLog>>
    /\ UNCHANGED route
    /\ UNCHANGED nonSwapVars

\* execute_sell: get_best_route and the start of perform_swap (lines 728-753)
execute_sell_route ==
    /\ pc = "sell_route"
    /\ \E answer \in RouteAnswers :
         /\ quoteLog' = Append(quoteLog,
                BestRouteRequest(sell.token_address, SOL_MINT, sell.raw_amount,
                                 sell.slippage, answer))
         /\ IF answer = "http_error"
            THEN Finish(Failed("Error", "AggregatorError")) /\ UNCHANGED <<args, attempt>>
            ELSE IF answer \in {"empty", "no_route_plan"}
            THEN Finish(Failed("Error", "NoRouteFound")) /\ UNCHANGED <<args, attempt>>
            ELSE /\ args' = PerformSwapArgs(sell.token_address, sell.raw_amount, sell.cred,
                                sell.slippage, DefaultMaxRetries, TRUE)
                 /\ attempt' = 0
                 /\ pc' = "quote"
                 /\ result' = result
    /\ UNCHANGED <<entry, quote_data, swap_transaction, signature, buildLog, signLog,
                   submitLog, pollLog, sell>>
    /\ UNCHANGED route
    /\ UNCHANGED nonSwapVars

----------------------------------------------------------------------------
(* SolanaService transfers and handlers/withdraw.py confirm_withdrawal *)

\* from_private_key: a base-58 secret key, a hex secret key that is not
\* base-58 text, a hex secret key that is also base-58 text, a text that is
\* neither, or nothing (get_user_wallet found no wallet)
TransferCredentials == {"b58", "hex", "hex_b58", "garbage", NoneVal}

\* length of b58decode(key), -1 when it raises
B58DecodeLen(key) ==
    CASE key = "b58" -> 64
      [] key = "hex_b58" -> 94
      [] OTHER -> -1

\* length of bytes.fromhex(key), -1 when it raises
HexDecodeLen(key) ==
    CASE key \in {"hex", "hex_b58"} -> 64
      [] OTHER -> -1

\* send_sol, lines 322-347: the secret key bytes have the 64 bytes of a keypair
SolKeypair(key) ==
    LET first == B58DecodeLen(key)
        private_key_bytes == IF first > 0 THEN first ELSE HexDecodeLen(key)
    IN private_key_bytes = 64

\* send_spl_token, lines 444-448
SplKeypair(key) == key # NoneVal /\ B58DecodeLen(key) = 64

NoTransferArgs == [cred |-> NoneVal, to_address |-> NoneVal, token_mint |-> NoneVal,
                   amount |-> 0, token |-> NoneVal]
NoTransaction == [instructions |-> <<>>, recent_blockhash |-> FALSE, signed |-> FALSE]

TransferInit ==
    /\ caller = "none"
    /\ tpc = "idle"
    /\ targs = NoTransferArgs
    /\ destAccount = FALSE
    /\ transaction = NoTransaction
    /\ phases = <<>>
    /\ rpcLog = <<>>
    /\ sent = <<>>
    /\ confirmed = FALSE
    /\ transferResult = NoResult
    /\ report = "none"
    /\ ledger = <<>>

\* log_transaction as called by confirm_withdrawal (lines 412-419, 435-442)
LedgerRecord(r) ==
    IF r.kind = "Signature"
    THEN [status |-> "success", tx_signature |-> r.text, error |-> ""]
    ELSE [status |-> "error", tx_signature |-> <<>>, error |-> r.reason]

\* send_sol / send_spl_token returns or raises to caller c; confirm_withdrawal
\* reports a returned signature as success at once (lines 408-428) and a
\* raised error as an error (lines 430-447)
TransferEnds(c, r) ==
    /\ tpc' = "done"
    /\ transferResult' = r
    /\ IF c = "confirm_withdrawal"
       THEN /\ report' = IF r.kind = "Signature" THEN "success" ELSE "error"
            /\ ledger' = Append(ledger, LedgerRecord(r))
       ELSE UNCHANGED <<report, ledger>>

\* send_sol up to the blockhash request (lines 309-383)
SendSolBegins(c, a) ==
    IF a.cred = NoneVal THEN
        TransferEnds(c, Failed("Raised", "CredentialUnavailable"))
        /\ UNCHANGED <<transaction, phases>>
    ELSE IF a.to_address = NoneVal THEN
        TransferEnds(c, Failed("Raised", "NoRecipient"))
        /\ UNCHANGED <<transaction, phases>>
    ELSE IF a.amount <= 0 THEN
        TransferEnds(c, Failed("Raised", "InvalidAmount"))
        /\ UNCHANGED <<transaction, phases>>
    ELSE IF ~SolKeypair(a.cred) THEN
        TransferEnds(c, Failed("Raised", "InvalidCredentialFormat"))
        /\ UNCHANGED <<transaction, phases>>
    ELSE IF ~PublicKey(a.to_address) THEN
        TransferEnds(c, Failed("Raised", "InvalidRecipientAddress"))
        /\ UNCHANGED <<transaction, phases>>
    ELSE
        /\ transaction' = [NoTransaction EXCEPT !.instructions = <<"system_transfer">>]
        /\ phases' = Append(phases, "Building")
        /\ tpc' = "sol_blockhash"
        /\ UNCHANGED <<transferResult, report, ledger>>

\* send_spl_token up to the token-supply request (lines 440-458)
SendSplBegins_LateAddressCheck(c, a) ==
    IF ~SplKeypair(a.cred) THEN
        TransferEnds(c, Failed("Raised", "InvalidCredentialFormat"))
    ELSE
        /\ tpc' = "spl_supply"
        /\ UNCHANGED <<transferResult, report, ledger>>

SendSplBegins(c, a) ==
    IF ~SplKeypair(a.cred) THEN
        TransferEnds(c, Failed("Raised", "InvalidCredentialFormat"))
    ELSE IF ~PublicKey(a.to_address) THEN
        TransferEnds(c, Failed("Raised", "InvalidRecipientAddress"))
    ELSE IF ~PublicKey(a.token_mint) THEN
        TransferEnds(c, Failed("Raised", "InvalidAssetAddress"))
    ELSE
        /\ tpc' = "spl_supply"
        /\ UNCHANGED <<transferResult, report, ledger>>

\* the withdraw tokens of the conversation state and their mints
WithdrawTokens == {"SOL", "USDC", "DOGE"}

\* confirm_withdrawal up to the first request of the transfer (lines 366-406)
confirm_withdrawal ==
    /\ tpc = "idle"
    /\ caller' = "confirm_withdrawal"
    /\ \E token \in WithdrawTokens \cup {NoneVal}, amount \in {0, 1},
          recipient_address \in {UserWallet, NoneVal},
          user_privkey \in TransferCredentials, exists \in BOOLEAN :
         /\ destAccount' = exists
         /\ IF token = NoneVal \/ amount = 0 \/ recipient_address = NoneVal
            THEN /\ TransferEnds("confirm_withdrawal", Failed("Raised", "MissingData"))
                 /\ UNCHANGED <<targs, transaction, phases>>
            ELSE IF token = "SOL"
            THEN /\ targs' = [cred |-> user_privkey, to_address |-> recipient_address,
                              token_mint |-> NoneVal, amount |-> amount, token |-> token]
                 /\ SendSolBegins("confirm_withdrawal", targs')
            ELSE IF token \notin DOMAIN SOLANA_TOKEN_ADDRESSES
            THEN /\ TransferEnds("confirm_withdrawal", Failed("Raised", "UnknownToken"))
                 /\ UNCHANGED <<targs, transaction, phases>>
            ELSE /\ targs' = [cred |-> user_privkey, to_address |-> recipient_address,
                              token_mint |-> SOLANA_TOKEN_ADDRESSES[token],
                              amount |-> amount, token |-> token]
                 /\ SendSplBegins("confirm_withdrawal", targs')
                 /\ UNCHANGED <<transaction, phases>>
    /\ UNCHANGED <<rpcLog, sent, confirmed>>
    /\ UNCHANGED nonTransferVars

\* send_sol called on its own
send_sol ==
    /\ tpc = "idle"
    /\ caller' = "send_sol"
    /\ \E from_private_key \in TransferCredentials,
          to_address \in {UserWallet, BadAddress, NoneVal}, amount \in {0, 1} :
         /\ targs' = [cred |-> from_private_key, to_address |-> to_address,
                      token_mint |-> NoneVal, amount |-> amount, token |-> "SOL"]
         /\ SendSolBegins("send_sol", targs')
    /\ UNCHANGED <<destAccount, rpcLog, sent, confirmed>>
    /\ UNCHANGED nonTransferVars

\* send_spl_token called on its own
send_spl_token ==
    /\ tpc = "idle"
    /\ caller' = "send_spl_token"
    /\ \E from_private_key \in TransferCredentials,
          to_address \in {UserWallet, BadAddress}, token_mint \in {USDC_MINT, BadAddress},
          exists \in BOOLEAN :
         /\ destAccount' = exists
         /\ targs' = [cred |-> from_private_key, to_address |-> to_address,
                      token_mint |-> token_mint, amount |-> 1, token |-> "USDC"]
         /\ SendSplBegins("send_spl_token", targs')
    /\ UNCHANGED <<transaction, phases, rpcLog, sent, confirmed>>
    /\ UNCHANGED nonTransferVars

\* send_sol: get_latest_blockhash, then sign (lines 383-403)
send_sol_blockhash ==
    /\ tpc = "sol_blockhash"
    /\ rpcLog' = Append(rpcLog, "get_latest_blockhash")
    /\ \E answer \in {"ok", "rpc_error"} :
         IF answer = "ok"
         THEN /\ transaction' = [transaction EXCEPT !.recent_blockhash = TRUE, !.signed = TRUE]
              /\ phases' = Append(phases, "Signing")
              /\ tpc' = "sol_submit"
              /\ UNCHANGED <<transferResult, report, ledger>>
         ELSE /\ TransferEnds(caller, Failed("Raised", "AnchorUnavailable"))
              /\ UNCHANGED <<transaction, phases>>
    /\ UNCHANGED <<caller, targs, destAccount, sent, confirmed>>
    /\ UNCHANGED nonTransferVars

\* send_sol: send_transaction with the default options, which do not wait
\* for confirmation; the signature is returned at once (lines 405-421)
send_sol_submit ==
    /\ tpc = "sol_submit"
    /\ rpcLog' = Append(rpcLog, "send_transaction")
    /\ sent' = Append(sent, transaction)
    /\ phases' = Append(phases, "Submitting")
    /\ \E answer \in {"ok", "rpc_error"} :
         IF answer = "ok"
         THEN TransferEnds(caller, Returned("Signature", SignatureStr(TxSignature(Len(sent) + 1))))
         ELSE TransferEnds(caller, Failed("Raised", "SubmissionFailed"))
    /\ UNCHANGED <<caller, targs, destAccount, transaction, confirmed>>
    /\ UNCHANGED nonTransferVars

\* send_spl_token: get_token_supply (lines 458-474)
send_spl_token_supply ==
    /\ tpc = "spl_supply"
    /\ rpcLog' = Append(rpcLog, "get_token_supply")
    /\ \E answer \in {"ok", "rpc_error"} :
         IF answer = "ok"
         THEN tpc' = "spl_account" /\ UNCHANGED <<transferResult, report, ledger>>
         ELSE TransferEnds(caller, Failed("Raised", "RpcError"))
    /\ UNCHANGED <<caller, targs, destAccount, transaction, phases, sent, confirmed>>
    /\ UNCHANGED nonTransferVars

\* send_spl_token, lines 498-521: the instructions of the one transaction
TransferInstructions_TransferOnly(dest_exists) == <<"spl_transfer">>

TransferInstructions(dest_exists) ==
    (IF ~dest_exists THEN <<"create_associated_token_account">> ELSE <<>>)
    \o <<"spl_transfer">>

\* send_spl_token: get_account_info of the recipient's associated account,
\* then the instructions of the transaction (lines 481-522)
send_spl_token_account ==
    /\ tpc = "spl_account"
    /\ rpcLog' = Append(rpcLog, "get_account_info")
    /\ \E answer \in {"ok", "rpc_error"} :
         IF answer = "ok"
         THEN LET dest_exists == destAccount
              IN /\ transaction' = [NoTransaction EXCEPT !.instructions =
                                       TransferInstructions(dest_exists)]
                 /\ phases' = Append(phases, "Building")
                 /\ tpc' = "spl_blockhash"
                 /\ UNCHANGED <<transferResult, report, ledger>>
         ELSE /\ TransferEnds(caller, Failed("Raised", "RpcError"))
              /\ UNCHANGED <<transaction, phases>>
    /\ UNCHANGED <<caller, targs, destAccount, sent, confirmed>>
    /\ UNCHANGED nonTransferVars

\* send_spl_token: get_latest_blockhash, then sign (lines 524-541)
send_spl_token_blockhash ==
    /\ tpc = "spl_blockhash"
    /\ rpcLog' = Append(rpcLog, "get_latest_blockhash")
    /\ \E answer \in {"ok", "rpc_error"} :
         IF answer = "ok"
         THEN /\ transaction' = [transaction EXCEPT !.recent_blockhash = TRUE, !.signed = TRUE]
              /\ phases' = Append(phases, "Signing")
              /\ tpc' = "spl_submit"
              /\ UNCHANGED <<transferResult, report, ledger>>
         ELSE /\ TransferEnds(caller, Failed("Raised", "AnchorUnavailable"))
              /\ UNCHANGED <<transaction, phases>>
    /\ UNCHANGED <<caller, targs, destAccount, sent, confirmed>>
    /\ UNCHANGED nonTransferVars

\* send_spl_token: send_transaction, the submission (lines 543-545)
send_spl_token_submit ==
    /\ tpc = "spl_submit"
    /\ rpcLog' = Append(rpcLog, "send_transaction")
    /\ sent' = Append(sent, transaction)
    /\ phases' = Append(phases, "Submitting")
    /\ \E answer \in {"ok", "rpc_error"} :
         IF answer = "ok"
         THEN tpc' = "spl_confirm" /\ UNCHANGED <<transferResult, report, ledger>>
         ELSE TransferEnds(caller, Failed("Raised", "SubmissionFailed"))
    /\ UNCHANGED <<caller, targs, destAccount, transaction, confirmed>>
    /\ UNCHANGED nonTransferVars

\* send_spl_token: send_transaction was given skip_confirmation=False
\* (line 544), so the client polls the signature before it returns and raises
\* when the transaction is not confirmed in time (lines 545-568)
send_spl_token_confirm ==
    /\ tpc = "spl_confirm"
    /\ rpcLog' = Append(rpcLog, "get_signature_statuses")
    /\ phases' = Append(phases, "Confirming")
    /\ \E status \in {"confirmed", "expired"} :
         IF status = "confirmed"
         THEN /\ confirmed' = TRUE
              /\ TransferEnds(caller, Returned("Signature", SignatureStr(TxSignature(Len(sent)))))
         ELSE /\ confirmed' = FALSE
              /\ TransferEnds(caller, Failed("Raised", "Unconfirmed"))
    /\ UNCHANGED <<caller, targs, destAccount, transaction, sent>>
    /\ UNCHANGED nonTransferVars

----------------------------------------------------------------------------
(* Retry helpers: solana_client.py and JupiterService.get_blockhash_with_retry *)

NoRequest == [fn |-> "none", max_retries |-> 0, shape |-> "none"]
NoOutcome == [kind |-> "none", value |-> NoneVal]
HelperReturned(v) == [kind |-> "Returned", value |-> v]
HelperRaised(msg) == [kind |-> "Raised", value |-> msg]

\* the two response shapes of the RPC client library: a dict with a nested
\* result, or a typed object with a .value attribute
ResponseShapes == {"dict", "object"}

ClientInit ==
    /\ request = NoRequest
    /\ cpc = "idle"
    /\ cattempt = 0
    /\ answers = <<>>
    /\ sleeps = <<>>
    /\ outcome = NoOutcome

\* a helper is entered: `for attempt in range(max_retries)` runs its first
\* iteration, or none at all and the function body ends (returning None)
HelperBegins(fn, max_retries, shape) ==
    /\ request' = [fn |-> fn, max_retries |-> max_retries, shape |-> shape]
    /\ cattempt' = 0
    /\ IF max_retries > 0
       THEN cpc' = "loop" /\ outcome' = outcome
       ELSE cpc' = "done" /\ outcome' = HelperReturned(NoneVal)
    /\ UNCHANGED <<answers, sleeps>>
    /\ UNCHANGED nonClientVars

\* `continue`: the next iteration of range(max_retries), or the end of the
\* loop and of the function body, which returns None
Continue(seconds) ==
    /\ sleeps' = Append(sleeps, seconds)
    /\ IF cattempt + 1 < request.max_retries
       THEN cattempt' = cattempt + 1 /\ cpc' = "loop" /\ outcome' = outcome
       ELSE cattempt' = cattempt /\ cpc' = "done" /\ outcome' = HelperReturned(NoneVal)

HelperEnds(o) ==
    /\ cpc' = "done"
    /\ outcome' = o
    /\ UNCHANGED <<cattempt, sleeps>>

\* what send_raw_transaction answers
SendAnswers == {"signature", "result_dict", "rate_limit", "error"}

\* send_transaction_with_retry: `if "429" in error_msg` (line 44)
IsRateLimit(answer) == answer = "rate_limit"

\* send_transaction_with_retry: `if attempt == max_retries - 1` (line 50)
SendLastAttempt(att, max_retries) == att = max_retries - 1

\* send_transaction_with_retry: what attempt number att hands to
\* send_raw_transaction is the argument tx_bytes (lines 28-31)
TxBytesOfAttempt(att) == "tx_bytes"

send_transaction_with_retry ==
    /\ cpc = "idle"
    /\ \E max_retries \in (0..MaxClientRetries) \cup {DefaultClientRetries} :
         HelperBegins("send_transaction_with_retry", max_retries, "none")

\* one iteration of the loop of send_transaction_with_retry (lines 26-53)
send_transaction_attempt ==
    /\ cpc = "loop"
    /\ request.fn = "send_transaction_with_retry"
    /\ \E answer \in SendAnswers :
         /\ answers' = Append(answers, answer)
         /\ IF answer \in {"signature", "result_dict"}
            THEN HelperEnds(HelperReturned("signature"))
            ELSE IF IsRateLimit(answer)
            THEN Continue(2 * (cattempt + 1))
            ELSE IF SendLastAttempt(cattempt, request.max_retries)
            THEN HelperEnds(HelperRaised("SubmissionFailed"))
            ELSE Continue(1)
    /\ UNCHANGED request
    /\ UNCHANGED nonClientVars

\* what confirm_transaction answers, by response shape.  A dict carries its
\* statuses under result.value: absent or empty, [None] while the signature
\* is still pending, [status] once it is confirmed.
ConfirmAnswers(shape) ==
    IF shape = "dict"
    THEN {"rpc_error", "no_result", "value_empty", "value_pending", "value_confirmed"}
    ELSE {"rpc_error", "object_pending", "object_confirmed"}

\* the answers that report, without error, a signature that is not confirmed
StillPending == {"value_empty", "value_pending", "object_pending"}

\* `'result' in response` (line 79) on a typed response object, which is no
\* container: TypeError
MembershipRaises(answer) == answer \in {"object_pending", "object_confirmed"}

\* `response['result'].get('value', False)` and `if value:` (lines 80-81):
\* a non-empty list is true whatever it holds
ValueTruthy(answer) == answer \in {"value_pending", "value_confirmed"}

\* both loops: `if attempt < max_retries - 1` (lines 87 and 95)
ConfirmMoreAttempts(att, max_retries) == att < max_retries - 1

confirm_transaction_with_retry ==
    /\ cpc = "idle"
    /\ \E max_retries \in (0..MaxClientRetries) \cup {DefaultClientRetries}, shape \in ResponseShapes :
         HelperBegins("confirm_transaction_with_retry", max_retries, shape)

\* one iteration of the loop of confirm_transaction_with_retry (lines 70-98)
confirm_transaction_attempt ==
    /\ cpc = "loop"
    /\ request.fn = "confirm_transaction_with_retry"
    /\ \E answer \in ConfirmAnswers(request.shape) :
         /\ answers' = Append(answers, answer)
         /\ IF answer = "rpc_error" \/ MembershipRaises(answer)
            THEN IF ConfirmMoreAttempts(cattempt, request.max_retries)
                 THEN Continue(2)
                 ELSE HelperEnds(HelperRaised("ConfirmationFailed"))
            ELSE IF ValueTruthy(answer)
            THEN HelperEnds(HelperReturned("True"))
            ELSE IF ConfirmMoreAttempts(cattempt, request.max_retries)
            THEN Continue(2)
            ELSE HelperEnds(HelperReturned("False"))
    /\ UNCHANGED request
    /\ UNCHANGED nonClientVars

\* what get_latest_blockhash answers
BlockhashAnswers == {"blockhash", "bad_format", "rpc_error"}

\* get_blockhash_with_retry: the response has .value.blockhash (line 152)
BlockhashUsable_AnyResponse(answer) == answer # "rpc_error"

BlockhashUsable(answer) == answer = "blockhash"

\* get_blockhash_with_retry: `if attempt < max_retries - 1` (line 161)
BlockhashMoreAttempts(att, max_retries) == att < max_retries - 1

get_blockhash_with_retry ==
    /\ cpc = "idle"
    /\ \E max_retries \in (0..MaxClientRetries) \cup {DefaultBlockhashRetries} :
         HelperBegins("get_blockhash_with_retry", max_retries, "object")

\* one iteration of the loop of get_blockhash_with_retry (lines 147-164)
get_blockhash_attempt ==
    /\ cpc = "loop"
    /\ request.fn = "get_blockhash_with_retry"
    /\ \E answer \in BlockhashAnswers :
         /\ answers' = Append(answers, answer)
         /\ IF BlockhashUsable(answer)
            THEN HelperEnds(HelperReturned(IF answer = "blockhash"
                                           THEN "recent_blockhash" ELSE NoneVal))
            ELSE IF BlockhashMoreAttempts(cattempt, request.max_retries)
            THEN Continue(1)
            ELSE HelperEnds(HelperRaised("AnchorUnavailable"))
    /\ UNCHANGED request
    /\ UNCHANGED nonClientVars

NextClient ==
    \/ send_transaction_with_retry
    \/ send_transaction_attempt
    \/ confirm_transaction_with_retry
    \/ confirm_transaction_attempt
    \/ get_blockhash_with_retry
    \/ get_blockhash_attempt

----------------------------------------------------------------------------
(* Read-only queries: one balance query, and calls of get_token_decimals *)

\* a text too short to be a mint (a bot command), solana_service.py line 183
ShortText == "/sell"
EmptyText == ""

\* Python exceptions raised inside the queries
ParseErrors == {"KeyError", "ValueError", "TypeError", "AttributeError"}
PythonExceptions == ParseErrors \cup {"IndexError", "RPCException", "ClientError"}

\* `except Exception` (solana_service.py lines 161, 239, 242 and
\* jupiter_service.py lines 582, 931) catches every exception raised here
CaughtByExcept_ParseOnly(exc) == exc \in ParseErrors

CaughtByExcept(exc) == exc \in PythonExceptions

\* what a query hands back: a balance, or the exception that escapes it
Balance(b) == [raised |-> FALSE, balance |-> b, exc |-> "none"]
Guarded(exc, fallback) ==
    IF CaughtByExcept(exc) THEN Balance(fallback)
    ELSE [raised |-> TRUE, balance |-> 0, exc |-> exc]

\* round(raw / 10**decimals, 2), in hundredths
Hundredths(raw, decimals) ==
    IF decimals >= 2
    THEN (2 * raw + Pow10(decimals - 2)) \div (2 * Pow10(decimals - 2))
    ELSE raw * Pow10(2 - decimals)

SolBalanceAnswers ==
    {"rpc_error", "empty", "object", "object_bad_value", "dict", "dict_no_value",
     "dict_error", "other"}
LamportsSet == {0, 20000000, 1000000000}

\* get_sol_balance, lines 135-163: the result in hundredths of SOL
SolBalance(public_key, answer, value) ==
    IF ~PublicKey(public_key) THEN Guarded("ValueError", 0)
    ELSE CASE answer = "rpc_error" -> Guarded("RPCException", 0)
           [] answer = "empty" -> Balance(0)
           [] answer \in {"object", "dict"} -> Balance(Hundredths(value, 9))
           [] answer = "object_bad_value" -> Guarded("TypeError", 0)
           [] answer = "dict_no_value" -> Guarded("KeyError", 0)
           [] OTHER -> Balance(0)

AccountInfoAnswers == {"rpc_error", "missing", "exists"}
TokenBalanceAnswers ==
    {"rpc_error", "empty", "object", "object_bad_amount", "dict", "other"}
TokenAmounts == {0, 150}

\* SolanaService.get_token_balance, lines 176-244, in hundredths of a token.
\* A dict response is read at response['result'], which holds no amount:
\* the default '0' is used (lines 223-225).
TokenBalance(public_key, token_mint, info, answer, amount, decimals) ==
    IF public_key = EmptyText \/ token_mint \in {EmptyText, ShortText} THEN Balance(0)
    ELSE IF ~PublicKey(public_key) \/ ~PublicKey(token_mint)
    THEN Guarded("ValueError", 0)
    ELSE IF info = "rpc_error" THEN Guarded("RPCException", 0)
    ELSE IF info = "missing" THEN Balance(0)
    ELSE CASE answer = "rpc_error" -> Guarded("RPCException", 0)
           [] answer = "object" -> Balance(Hundredths(amount, decimals))
           [] answer = "object_bad_amount" -> Guarded("ValueError", 0)
           [] OTHER -> Balance(0)

HoldingDecimalsAnswers == {"http_error", "error_body", "exception", "ok"}
HoldingAnswers ==
    {"http_error", "error_body", "exception", "no_accounts", "base64", "parsed",
     "parsed_no_info", "no_token_amount", "no_account_key", "amount_not_int"}

\* JupiterService.get_token_balance, lines 812-933: the raw balance
\* (its first component; the second is the decimals)
TokenHolding(wallet_address, token_address, dec_answer, answer, amount) ==
    IF ~PublicKey(ResolveToken(token_address)) \/ ~PublicKey(wallet_address)
    THEN Balance(0)
    ELSE IF dec_answer = "exception" THEN Guarded("ClientError", 0)
    ELSE IF dec_answer # "ok" THEN Balance(0)
    ELSE CASE answer = "exception" -> Guarded("ClientError", 0)
           [] answer = "parsed" -> Balance(amount)
           [] answer = "amount_not_int" -> Guarded("ValueError", 0)
           [] OTHER -> Balance(0)

\* RPC methods a balance query has called by the time it returns
SolBalanceRpc(public_key) ==
    IF PublicKey(public_key) THEN <<"getBalance">> ELSE <<>>
TokenBalanceRpc(public_key, token_mint, info) ==
    IF ~PublicKey(public_key) \/ ~PublicKey(token_mint) THEN <<>>
    ELSE IF info = "exists" THEN <<"getAccountInfo", "getTokenAccountBalance">>
    ELSE <<"getAccountInfo">>
TokenHoldingRpc(wallet_address, token_address, dec_answer) ==
    IF ~PublicKey(ResolveToken(token_address)) \/ ~PublicKey(wallet_address) THEN <<>>
    ELSE IF dec_answer = "ok" THEN <<"getTokenSupply", "getTokenAccountsByOwner">>
    ELSE <<"getTokenSupply">>

NoQuery ==
    [fn |-> "none", address_ok |-> TRUE, answered |-> <<>>, rpc |-> <<>>,
     returned |-> Balance(0)]

\* get_token_decimals: the value used when the query fails (lines 571, 576, 584)
FallbackDecimals == 9
DecimalsAnswers == {"http_error", "error_body", "exception", "ok", "ok_no_field"}
DecimalsFailures == {"http_error", "error_body", "exception"}

\* get_token_decimals, lines 557-584: what the call returns for an answer
DecimalsResult_Unguarded(answer, decimals) ==
    CASE answer = "exception" -> [raised |-> TRUE, value |-> 0]
      [] answer = "ok" -> [raised |-> FALSE, value |-> decimals]
      [] OTHER -> [raised |-> FALSE, value |-> FallbackDecimals]

DecimalsResult(answer, decimals) ==
    CASE answer = "ok" -> [raised |-> FALSE, value |-> decimals]
      [] OTHER -> [raised |-> FALSE, value |-> FallbackDecimals]

QueryInit ==
    /\ lastQuery = NoQuery
    /\ decimalsCalls = <<>>

get_sol_balance ==
    /\ lastQuery = NoQuery
    /\ \E public_key \in {UserWallet, BadAddress}, answer \in SolBalanceAnswers,
          value \in LamportsSet :
         lastQuery' = [fn |-> "get_sol_balance",
                       address_ok |-> PublicKey(public_key),
                       answered |-> IF PublicKey(public_key) THEN <<answer>> ELSE <<>>,
                       rpc |-> SolBalanceRpc(public_key),
                       returned |-> SolBalance(public_key, answer, value)]
    /\ UNCHANGED decimalsCalls
    /\ UNCHANGED nonQueryVars

get_token_balance ==
    /\ lastQuery = NoQuery
    /\ \E public_key \in {UserWallet, BadAddress, EmptyText},
          token_mint \in {RAY_MINT, BadAddress, ShortText},
          info \in AccountInfoAnswers, answer \in TokenBalanceAnswers,
          amount \in TokenAmounts, decimals \in DecimalsSet :
         LET rpc == TokenBalanceRpc(public_key, token_mint, info) IN
         lastQuery' = [fn |-> "get_token_balance",
                       address_ok |-> PublicKey(public_key) /\ PublicKey(token_mint),
                       answered |-> SubSeq(<<info, answer>>, 1, Len(rpc)),
                       rpc |-> rpc,
                       returned |-> TokenBalance(public_key, token_mint, info, answer,
                                                 amount, decimals)]
    /\ UNCHANGED decimalsCalls
    /\ UNCHANGED nonQueryVars

get_token_holding ==
    /\ lastQuery = NoQuery
    /\ \E wallet_address \in {UserWallet, BadAddress},
          token_address \in {"RAY", RAY_MINT, BadAddress},
          dec_answer \in HoldingDecimalsAnswers, answer \in HoldingAnswers,
          amount \in TokenAmounts :
         LET rpc == TokenHoldingRpc(wallet_address, token_address, dec_answer) IN
         lastQuery' = [fn |-> "JupiterService.get_token_balance",
                       address_ok |-> PublicKey(ResolveToken(token_address))
                                      /\ PublicKey(wallet_address),
                       answered |-> SubSeq(<<dec_answer, answer>>, 1, Len(rpc)),
                       rpc |-> rpc,
                       returned |-> TokenHolding(wallet_address, token_address,
                                                 dec_answer, answer, amount)]
    /\ UNCHANGED decimalsCalls
    /\ UNCHANGED nonQueryVars

\* one call of get_token_decimals: it posts getTokenSupply and returns
get_token_decimals ==
    /\ Len(decimalsCalls) < MaxDecimalsCalls
    /\ \E token_address \in {RAY_MINT, BONK_MINT}, answer \in DecimalsAnswers,
          decimals \in DecimalsSet :
         decimalsCalls' = Append(decimalsCalls,
             [token |-> token_address,
              answer |-> answer,
              carried |-> IF answer = "ok" THEN decimals ELSE -1,
              rpc |-> <<"getTokenSupply">>,
              returned |-> DecimalsResult(answer, decimals)])
    /\ UNCHANGED lastQuery
    /\ UNCHANGED nonQueryVars

NextQuery ==
    \/ get_sol_balance
    \/ get_token_balance
    \/ get_token_holding
    \/ get_token_decimals

----------------------------------------------------------------------------
(* Unit conversion: utils.to_lamports and utils.from_lamports *)

\* An amount is the decimal number Decimal(str(amount)) makes of the
\* argument: coef * 10^-digits, or a text that is no number, or NaN.
AmountKinds == {"number", "text", "nan"}
Amount(kind, coef, digits) == [kind |-> kind, coef |-> coef, digits |-> digits]
NoAmount == Amount("none", 0, 0)
NoConversion == [raised |-> FALSE, value |-> 0, decimals |-> 0]

\* to_lamports: `if value <= 0` (line 91)
NonPositive_ZeroOnly(coef) == coef = 0

NonPositive(coef) == coef <= 0

\* int(value * Decimal(10 ** decimals)) (line 96): int() drops the fraction
ToInt_HalfUp(coef, digits, decimals) ==
    (2 * coef * Pow10(decimals) + Pow10(digits)) \div (2 * Pow10(digits))

ToInt(coef, digits, decimals) == (coef * Pow10(decimals)) \div Pow10(digits)

\* to_lamports, lines 86-102
ToLamports(a, decimals) ==
    IF a.kind # "number" THEN [raised |-> TRUE, value |-> 0, decimals |-> decimals]
    ELSE IF NonPositive(a.coef) THEN [raised |-> FALSE, value |-> 0, decimals |-> decimals]
    ELSE [raised |-> FALSE, value |-> ToInt(a.coef, a.digits, decimals),
          decimals |-> decimals]

\* from_lamports, lines 118-130: the amount value * 10^-decimals
FromLamports(l, decimals) ==
    IF l < 0 THEN [raised |-> TRUE, value |-> 0, decimals |-> decimals]
    ELSE [raised |-> FALSE, value |-> l, decimals |-> decimals]

UnitsInit ==
    /\ upc = "idle"
    /\ amountIn = NoAmount
    /\ lamports = NoConversion
    /\ tokens = NoConversion

to_lamports ==
    /\ upc = "idle"
    /\ \E kind \in AmountKinds, coef \in (-MaxAmountCoef)..MaxAmountCoef,
          digits \in 0..AmountDigits, decimals \in 0..MaxDecimals :
         /\ kind # "number" => (coef = 0 /\ digits = 0)
         /\ amountIn' = Amount(kind, coef, digits)
         /\ lamports' = ToLamports(Amount(kind, coef, digits), decimals)
    /\ upc' = "converted"
    /\ UNCHANGED tokens
    /\ UNCHANGED nonUnitVars

\* from_lamports, on the value to_lamports returned or on one of its own
from_lamports ==
    /\ \/ /\ upc = "converted"
          /\ ~lamports.raised
          /\ tokens' = FromLamports(lamports.value, lamports.decimals)
       \/ /\ upc = "idle"
          /\ \E l \in (-MaxAmountInput)..MaxAmountInput, decimals \in 0..MaxDecimals :
               tokens' = FromLamports(l, decimals)
    /\ upc' = "restored"
    /\ UNCHANGED <<amountIn, lamports>>
    /\ UNCHANGED nonUnitVars

NextUnits ==
    \/ to_lamports
    \/ from_lamports

----------------------------------------------------------------------------
(* Handlers: buy, sell by amount, sell by percent *)

\* what the handler's reply to the user does
Telegram == {"delivered", "raises"}

\* firebase.get_user_wallet
WalletLookups == {"found", "missing"}

\* what execute_swap / execute_sell hand back to a handler
SwapOutcomes == {Returned("Link", SwapUrl(<<"5sig">>)), Failed("Error", "AggregatorError")}
SellOutcomes == {Returned("Link", SellUrl(<<"5sig">>)), Failed("Error", "NoRouteFound")}

NoUpdate == [handler |-> "none", token |-> NoneVal, amount |-> 0]

\* log_transaction, utils.py lines 157-203: one record per call
LogRecord(tx_type, token, amount, status, tx_signature, error) ==
    [tx_type |-> tx_type, token |-> token, amount |-> amount, status |-> status,
     tx_signature |-> tx_signature, error |-> error]

\* the handler hands a swap to the service and waits for it
SentForExecution(h, token, amount, step) ==
    /\ hpc' = step
    /\ update' = [handler |-> h, token |-> token, amount |-> amount]
    /\ executions' = Append(executions,
                        [handler |-> h, token |-> token, amount |-> amount,
                         result |-> NoResult, records |-> <<>>])
    /\ UNCHANGED <<transactionLog, handled>>

\* the handler returns without having sent anything; recs are the ledger
\* records it wrote on the way
HandlerReturns(recs) ==
    /\ hpc' = "idle"
    /\ update' = NoUpdate
    /\ transactionLog' = transactionLog \o recs
    /\ handled' = handled + 1
    /\ UNCHANGED executions

\* the service answered r; the handler wrote recs and returned
ExecutionEnds(r, recs) ==
    /\ hpc' = "idle"
    /\ update' = NoUpdate
    /\ executions' = [executions EXCEPT ![Len(executions)] =
                          [@ EXCEPT !.result = r, !.records = recs]]
    /\ transactionLog' = transactionLog \o recs
    /\ handled' = handled + 1

HandlerInit ==
    /\ hpc = "idle"
    /\ update = NoUpdate
    /\ executions = <<>>
    /\ transactionLog = <<>>
    /\ handled = 0

\* process_buy_callback up to execute_swap (buy.py lines 355-382)
process_buy_callback ==
    /\ hpc = "idle"
    /\ handled < MaxUpdates
    /\ \E token \in {RAY_MINT, BONK_MINT}, amount \in 0..MaxAmountInput,
          wallet \in WalletLookups, best_route \in {"route", "raises"},
          answer \in Telegram :
         IF amount <= 0 THEN HandlerReturns(<<>>)
         ELSE IF answer = "raises" THEN
             HandlerReturns(<<LogRecord("buy", token, amount, "error", <<>>, "TelegramError")>>)
         ELSE IF wallet = "missing" THEN
             HandlerReturns(<<LogRecord("buy", token, amount, "error", <<>>, "WalletNotFound")>>)
         ELSE IF best_route = "raises" THEN
             HandlerReturns(<<LogRecord("buy", token, amount, "error", <<>>, "AggregatorError")>>)
         ELSE SentForExecution("process_buy_callback", token, amount, "execute_swap")
    /\ UNCHANGED nonHandlerVars

\* process_buy_callback from the answer of execute_swap (buy.py lines 384-433)
process_buy_callback_result ==
    /\ hpc = "execute_swap"
    /\ update.handler = "process_buy_callback"
    /\ \E tx_url \in SwapOutcomes, answer \in Telegram :
         LET logged ==
                 IF Reported(tx_url) = "Failed"
                 THEN LogRecord("buy", update.token, update.amount, "error", <<>>,
                                tx_url.reason)
                 ELSE LogRecord("buy", update.token, update.amount, "success",
                                LastSegment(tx_url.text), "")
             \* the reply raising lands in `except Exception`, which logs again
             caught == LogRecord("buy", update.token, update.amount, "error", <<>>,
                                 "TelegramError")
         IN ExecutionEnds(tx_url, IF answer = "raises" THEN <<logged, caught>>
                                  ELSE <<logged>>)
    /\ UNCHANGED nonHandlerVars

\* process_amount_sell up to execute_sell (sell.py lines 81-116)
process_amount_sell ==
    /\ hpc = "idle"
    /\ handled < MaxUpdates
    /\ \E token \in {RAY_MINT, BONK_MINT, NoneVal}, amount \in 0..MaxAmountInput,
          wallet \in WalletLookups :
         IF token = NoneVal THEN HandlerReturns(<<>>)
         ELSE IF amount <= 0 THEN HandlerReturns(<<>>)
         ELSE IF wallet = "missing" THEN HandlerReturns(<<>>)
         ELSE SentForExecution("process_amount_sell", token, amount, "execute_sell")
    /\ UNCHANGED nonHandlerVars

\* process_amount_sell from the answer of execute_sell (sell.py lines 117-142):
\* the result is shown to the user and nothing else
process_amount_sell_result ==
    /\ hpc = "execute_sell"
    /\ update.handler = "process_amount_sell"
    /\ \E result_text \in SellOutcomes :
         ExecutionEnds(result_text, <<>>)
    /\ UNCHANGED nonHandlerVars

\* process_sell_percent_callback up to execute_sell (inline.py lines 175-243)
process_sell_percent_callback ==
    /\ hpc = "idle"
    /\ handled < MaxUpdates
    /\ \E token \in {RAY_MINT, BONK_MINT}, coef \in 0..MaxAmountInput,
          decimals \in {0, AmountDigits}, wallet \in WalletLookups :
         LET amount_lamports == ToLamports(Amount("number", coef, AmountDigits), decimals)
         IN IF wallet = "missing" THEN HandlerReturns(<<>>)
            ELSE IF amount_lamports.value < 1 THEN HandlerReturns(<<>>)
            ELSE SentForExecution("process_sell_percent_callback", token,
                                  amount_lamports.value, "execute_sell")
    /\ UNCHANGED nonHandlerVars

\* process_sell_percent_callback from the answer of execute_sell
\* (inline.py lines 244-290): the result is rendered and nothing else
process_sell_percent_callback_result ==
    /\ hpc = "execute_sell"
    /\ update.handler = "process_sell_percent_callback"
    /\ \E tx_result \in SellOutcomes \cup {Failed("Raised", "RpcError")} :
         ExecutionEnds(tx_result, <<>>)
    /\ UNCHANGED nonHandlerVars

NextHandler ==
    \/ process_buy_callback
    \/ process_buy_callback_result
    \/ process_amount_sell
    \/ process_amount_sell_result
    \/ process_sell_percent_callback
    \/ process_sell_percent_callback_result

----------------------------------------------------------------------------
(* JupiterService: swaps of two users on the one instance *)

Users == {1, 2}
WalletOf(user) == IF user = 1 THEN "wallet_1" ELSE "wallet_2"
KeyOf(user) == IF user = 1 THEN "key_1" ELSE "key_2"
AmountOf(user) == user

\* the fields __init__ sets on the instance the handlers share
ServiceFields ==
    [quote_api_url |-> "quote", swap_api_url |-> "swap", tokens_api_url |-> "tokens",
     headers |-> "Bearer"]

\* what the aggregator and the RPC answer to one request: the data, or
\* a failure that the private method turns into None
ExternalAnswers == {"ok", "none"}

\* a call of perform_swap keeps its arguments and loop variables in its
\* own coroutine frame
FrameOf_Shared(user) == 1

FrameOf(user) == user

NoFrame == [args |-> NoArgs, user_wallet_address |-> NoneVal, attempt |-> 0,
            quote_data |-> <<>>, swap_transaction |-> <<>>]
NoCall == [args |-> NoArgs, wallet |-> NoneVal]

\* the data that come back when the request succeeds
QuoteData(a) == <<QuoteRequest(a, "ok")>>
SwapTransaction(quote, wallet) == <<[quote |-> quote, wallet |-> wallet]>>
SignedBy(tx, key) == <<[tx |-> tx, key |-> key]>>

ConcurrentInit ==
    /\ position = [u \in Users |-> "idle"]
    /\ frames = [u \in Users |-> NoFrame]
    /\ calls = [u \in Users |-> NoCall]
    /\ responses = [u \in Users |-> <<>>]
    /\ outcomes = [u \in Users |-> NoResult]
    /\ service = ServiceFields
    /\ overlapped = FALSE

\* the other user's call is between its first and its last step
Overlaps(u) == \E o \in Users \ {u} : position[o] \notin {"idle", "done"}

\* one attempt of perform_swap run alone against the answers resp (n = 0:
\* the answers end before the attempt does)
AttemptAlone(a, wallet, resp) ==
    IF Len(resp) < 1 THEN [n |-> 0, sig |-> <<>>, msg |-> "Unanswered"]
    ELSE IF resp[1] = "none" THEN [n |-> 1, sig |-> <<>>, msg |-> "QuoteFailed"]
    ELSE IF Len(resp) < 2 THEN [n |-> 0, sig |-> <<>>, msg |-> "Unanswered"]
    ELSE IF resp[2] = "none" THEN [n |-> 2, sig |-> <<>>, msg |-> "BuildFailed"]
    ELSE IF Len(resp) < 3 THEN [n |-> 0, sig |-> <<>>, msg |-> "Unanswered"]
    ELSE IF resp[3] = "none" THEN [n |-> 3, sig |-> <<>>, msg |-> "SubmissionFailed"]
    ELSE [n |-> 3, msg |-> "",
          sig |-> SignedBy(SwapTransaction(QuoteData(a), wallet), a.cred)]

\* perform_swap run alone against the answers resp (lines 219-272)
RECURSIVE RunAlone(_, _, _, _)
RunAlone(a, wallet, att, resp) ==
    LET r == AttemptAlone(a, wallet, resp)
    IN IF r.sig # <<>> THEN Returned("Signature", r.sig)
       ELSE IF r.n = 0 THEN NoResult
       ELSE IF MoreAttempts(att, a.max_retries)
       THEN RunAlone(a, wallet, att + 1, SubSeq(resp, r.n + 1, Len(resp)))
       ELSE Failed("Raised", r.msg)

\* perform_swap of user u: a step failed (lines 231-236, 244-249, 257-262)
AttemptFailed(u, msg) ==
    IF MoreAttempts(frames[FrameOf(u)].attempt, frames[FrameOf(u)].args.max_retries)
    THEN /\ frames' = [frames EXCEPT ![FrameOf(u)].attempt = @ + 1]
         /\ position' = [position EXCEPT ![u] = "quote"]
         /\ UNCHANGED outcomes
    ELSE /\ position' = [position EXCEPT ![u] = "done"]
         /\ outcomes' = [outcomes EXCEPT ![u] = Failed("Raised", msg)]
         /\ UNCHANGED frames

\* a handler of user u calls perform_swap on the shared instance (lines 196-219)
concurrent_perform_swap ==
    /\ \E u \in Users :
         /\ position[u] = "idle"
         /\ \E token \in {RAY_MINT, BONK_MINT}, is_selling \in BOOLEAN,
               max_retries \in 1..MaxRetryBound :
              LET a == PerformSwapArgs(token, AmountOf(u), KeyOf(u), BuySlippage,
                                       max_retries, is_selling)
              IN /\ frames' = [frames EXCEPT ![FrameOf(u)] =
                                   [NoFrame EXCEPT !.args = a,
                                                   !.user_wallet_address = WalletOf(u)]]
                 /\ calls' = [calls EXCEPT ![u] = [args |-> a, wallet |-> WalletOf(u)]]
         /\ position' = [position EXCEPT ![u] = "quote"]
         /\ overlapped' = (overlapped \/ Overlaps(u))
    /\ UNCHANGED <<responses, outcomes, service>>
    /\ UNCHANGED nonConcurrentVars

\* await self._get_quote (lines 224-236)
concurrent_get_quote ==
    /\ \E u \in Users, answer \in ExternalAnswers :
         /\ position[u] = "quote"
         /\ responses' = [responses EXCEPT ![u] = Append(@, answer)]
         /\ overlapped' = (overlapped \/ Overlaps(u))
         /\ IF answer = "ok"
            THEN /\ frames' = [frames EXCEPT ![FrameOf(u)].quote_data =
                                   QuoteData(frames[FrameOf(u)].args)]
                 /\ position' = [position EXCEPT ![u] = "build"]
                 /\ UNCHANGED outcomes
            ELSE AttemptFailed(u, "QuoteFailed")
    /\ UNCHANGED <<calls, service>>
    /\ UNCHANGED nonConcurrentVars

\* await self._get_swap_transaction (lines 239-249)
concurrent_get_swap_transaction ==
    /\ \E u \in Users, answer \in ExternalAnswers :
         /\ position[u] = "build"
         /\ responses' = [responses EXCEPT ![u] = Append(@, answer)]
         /\ overlapped' = (overlapped \/ Overlaps(u))
         /\ IF answer = "ok"
            THEN /\ frames' = [frames EXCEPT ![FrameOf(u)].swap_transaction =
                                   SwapTransaction(frames[FrameOf(u)].quote_data,
                                                   frames[FrameOf(u)].user_wallet_address)]
                 /\ position' = [position EXCEPT ![u] = "send"]
                 /\ UNCHANGED outcomes
            ELSE AttemptFailed(u, "BuildFailed")
    /\ UNCHANGED <<calls, service>>
    /\ UNCHANGED nonConcurrentVars

\* await self._send_swap_transaction and the return (lines 252-265)
concurrent_send_swap_transaction ==
    /\ \E u \in Users, answer \in ExternalAnswers :
         /\ position[u] = "send"
         /\ responses' = [responses EXCEPT ![u] = Append(@, answer)]
         /\ overlapped' = (overlapped \/ Overlaps(u))
         /\ IF answer = "ok"
            THEN /\ outcomes' = [outcomes EXCEPT ![u] =
                        Returned("Signature",
                                 SignedBy(frames[FrameOf(u)].swap_transaction,
                                          frames[FrameOf(u)].args.cred))]
                 /\ position' = [position EXCEPT ![u] = "done"]
                 /\ UNCHANGED frames
            ELSE AttemptFailed(u, "SubmissionFailed")
    /\ UNCHANGED <<calls, service>>
    /\ UNCHANGED nonConcurrentVars

NextConcurrent ==
    \/ concurrent_perform_swap
    \/ concurrent_get_quote
    \/ concurrent_get_swap_transaction
    \/ concurrent_send_swap_transaction

----------------------------------------------------------------------------
(* Withdraw conversation: the handlers of handlers/withdraw.py on the FSM state *)

\* what get_all_balances returns: tokens with a balance above 0 (0: absent)
WalletBalances ==
    {[t \in WithdrawTokens |-> IF t = "SOL" THEN MaxWithdraw ELSE IF t = "USDC" THEN 1 ELSE 0],
     [t \in WithdrawTokens |-> IF t = "SOL" THEN 1 ELSE 0]}

NoBalances == [t \in WithdrawTokens |-> 0]

\* addresses a user types
TypedAddresses == {UserWallet, RAY_MINT, BadAddress}

\* the FSM data after state.clear()
NoData == [balances |-> NoBalances, selected_token |-> NoneVal, token_balance |-> 0,
           recipient_address |-> NoneVal, amount |-> 0]

\* what was entered since the last token selection, and the number of the
\* confirmation the stored amount belongs to
NoEntries == [address |-> FALSE, amount |-> FALSE]

WithdrawInit ==
    /\ fsm = "none"
    /\ data = NoData
    /\ entered = NoEntries
    /\ confirmation = 0
    /\ running = <<>>
    /\ submitted = <<>>
    /\ confirms = 0

\* await state.clear()
StateClear ==
    /\ fsm' = "none"
    /\ data' = NoData

\* confirm_withdrawal is registered for the callback data alone (line 361)
ConfirmFilter(state) == TRUE

\* cmd_withdraw (lines 105-137)
cmd_withdraw ==
    /\ \E balances \in WalletBalances :
         data' = [data EXCEPT !.balances = balances]
    /\ fsm' = "waiting_for_token"
    /\ UNCHANGED <<entered, confirmation, running, submitted, confirms>>
    /\ UNCHANGED nonWithdrawVars

\* process_token_selection (lines 139-177)
process_token_selection ==
    /\ fsm = "waiting_for_token"
    /\ \E token \in WithdrawTokens :
         IF data.balances[token] = 0
         THEN UNCHANGED <<fsm, data, entered>>
         ELSE /\ data' = [data EXCEPT !.selected_token = token,
                                      !.token_balance = data.balances[token]]
              /\ fsm' = "waiting_for_address"
              /\ entered' = NoEntries
    /\ UNCHANGED <<confirmation, running, submitted, confirms>>
    /\ UNCHANGED nonWithdrawVars

\* back_to_tokens (lines 179-210): registered for every state
back_to_tokens ==
    /\ fsm # "waiting_for_token"
    /\ fsm' = "waiting_for_token"
    /\ UNCHANGED <<data, entered, confirmation, running, submitted, confirms>>
    /\ UNCHANGED nonWithdrawVars

\* refresh_balances (lines 212-255): registered for every state
refresh_balances ==
    /\ \E balances \in WalletBalances :
         /\ balances # data.balances
         /\ data' = [data EXCEPT !.balances = balances]
    /\ UNCHANGED <<fsm, entered, confirmation, running, submitted, confirms>>
    /\ UNCHANGED nonWithdrawVars

\* process_address (lines 257-301)
process_address ==
    /\ fsm = "waiting_for_address"
    /\ \E address \in TypedAddresses :
         /\ PublicKey(address)
         /\ data' = [data EXCEPT !.recipient_address = address]
    /\ entered' = [entered EXCEPT !.address = TRUE]
    /\ fsm' = "waiting_for_amount"
    /\ UNCHANGED <<confirmation, running, submitted, confirms>>
    /\ UNCHANGED nonWithdrawVars

\* process_amount (lines 303-359)
process_amount ==
    /\ fsm = "waiting_for_amount"
    /\ confirmation < MaxConfirmations
    /\ \E amount \in 0..(MaxWithdraw + 1) :
         /\ ~(amount <= 0)
         /\ ~(amount > data.token_balance)
         /\ data' = [data EXCEPT !.amount = amount]
    /\ entered' = [entered EXCEPT !.amount = TRUE]
    /\ confirmation' = confirmation + 1
    /\ fsm' = "confirming_withdrawal"
    /\ UNCHANGED <<running, submitted, confirms>>
    /\ UNCHANGED nonWithdrawVars

\* confirm_withdrawal up to the call of send_sol / send_spl_token (lines 361-406)
confirm_withdrawal_callback ==
    /\ ConfirmFilter(fsm)
    /\ confirms < MaxConfirmCallbacks
    /\ confirms' = confirms + 1
    /\ IF data.selected_token = NoneVal \/ data.amount = 0
          \/ data.recipient_address = NoneVal
       THEN /\ StateClear
            /\ UNCHANGED running
       ELSE /\ running' = Append(running,
                   [token |-> data.selected_token, amount |-> data.amount,
                    recipient_address |-> data.recipient_address,
                    token_balance |-> data.token_balance,
                    entered |-> entered, confirmation |-> confirmation])
            /\ UNCHANGED <<fsm, data>>
    /\ UNCHANGED <<entered, confirmation, submitted>>
    /\ UNCHANGED nonWithdrawVars

\* confirm_withdrawal from the answer of the transfer (lines 408-450)
confirm_withdrawal_transfer ==
    /\ running # <<>>
    /\ \E i \in 1..Len(running), answer \in {"submitted", "raised"} :
         /\ submitted' = IF answer = "submitted" THEN Append(submitted, running[i])
                         ELSE submitted
         /\ running' = SubSeq(running, 1, i - 1) \o SubSeq(running, i + 1, Len(running))
    /\ StateClear
    /\ UNCHANGED <<entered, confirmation, confirms>>
    /\ UNCHANGED nonWithdrawVars

\* cancel_withdrawal (lines 452-457): registered for every state
cancel_withdrawal ==
    /\ fsm # "none" \/ data # NoData
    /\ StateClear
    /\ UNCHANGED <<entered, confirmation, running, submitted, confirms>>
    /\ UNCHANGED nonWithdrawVars

NextWithdraw ==
    \/ cmd_withdraw
    \/ process_token_selection
    \/ back_to_tokens
    \/ refresh_balances
    \/ process_address
    \/ process_amount
    \/ confirm_withdrawal_callback
    \/ confirm_withdrawal_transfer
    \/ cancel_withdrawal

----------------------------------------------------------------------------
(* WalletService and encrypt_existing_keys on the stored wallet of one user *)

\* a private-key text: the base-58 key of the pair number `key`, under
\* `layers` Fernet encryptions
KeyText(key, layers) == [key |-> key, layers |-> layers]

NoWallet == [public_key |-> 0, private_key |-> KeyText(0, 0)]

\* encrypt_private_key, services/utils.py lines 13-32
encrypt_private_key(text) == KeyText(text.key, text.layers + 1)

\* is_encrypted, lines 63-74: starts with 'g' and is longer than 100, which a
\* Fernet token is and a base-58 key (at most 88 characters) is not
is_encrypted_Never(text) == FALSE

is_encrypted(text) == text.layers >= 1

\* decrypt_private_key, lines 34-61: a text that is no token fails to decrypt
\* and, being 40 to 90 characters long, is returned as it is
decrypt_private_key(text) ==
    IF text.layers >= 1 THEN KeyText(text.key, text.layers - 1) ELSE text

\* the script's own test, encrypt_existing_keys.py line 47
already_encrypted(text) == text.layers >= 1

WalletInit ==
    /\ stored = NoWallet
    /\ generated = 0
    /\ gpc = "idle"
    /\ wallet_data = NoWallet
    /\ spc = "idle"
    /\ script_data = NoWallet
    /\ returned = {}
    /\ migrations = 0

\* a wallet saved before keys were encrypted (wallet.py lines 113-116)
legacy_wallet ==
    /\ stored = NoWallet
    /\ generated = 0
    /\ generated' = 1
    /\ stored' = [public_key |-> 1, private_key |-> KeyText(1, 0)]
    /\ UNCHANGED <<gpc, wallet_data, spc, script_data, returned, migrations>>
    /\ UNCHANGED nonWalletVars

\* create_wallet, wallet.py lines 51-87
create_wallet ==
    /\ generated < MaxWallets
    /\ generated' = generated + 1
    /\ stored' = [public_key |-> generated + 1,
                  private_key |-> encrypt_private_key(KeyText(generated + 1, 0))]
    /\ UNCHANGED <<gpc, wallet_data, spc, script_data, returned, migrations>>
    /\ UNCHANGED nonWalletVars

\* get_wallet up to the save of the migration (wallet.py lines 99-120); with
\* no wallet stored it returns None, here NoWallet
get_wallet ==
    /\ gpc = "idle"
    /\ IF stored = NoWallet
       THEN /\ returned' = returned \cup {NoWallet}
            /\ UNCHANGED <<gpc, wallet_data>>
       ELSE IF is_encrypted(stored.private_key)
       THEN /\ returned' = returned \cup
                   {[public_key |-> stored.public_key,
                     private_key |-> decrypt_private_key(stored.private_key)]}
            /\ UNCHANGED <<gpc, wallet_data>>
       ELSE /\ wallet_data' = stored
            /\ gpc' = "save"
            /\ UNCHANGED returned
    /\ UNCHANGED <<stored, generated, spc, script_data, migrations>>
    /\ UNCHANGED nonWalletVars

\* get_wallet: the migration saves the encrypted key, or fails to, and the
\* key read is returned (wallet.py lines 121-133)
get_wallet_save ==
    /\ gpc = "save"
    /\ \E saved \in BOOLEAN :
         IF saved
         THEN /\ stored' = [public_key |-> wallet_data.public_key,
                            private_key |-> encrypt_private_key(wallet_data.private_key)]
              /\ migrations' = migrations + 1
         ELSE UNCHANGED <<stored, migrations>>
    /\ returned' = returned \cup {wallet_data}
    /\ gpc' = "idle"
    /\ wallet_data' = NoWallet
    /\ UNCHANGED <<generated, spc, script_data>>
    /\ UNCHANGED nonWalletVars

\* encrypt_user_private_key up to the save (encrypt_existing_keys.py lines 19-53)
encrypt_user_private_key ==
    /\ spc = "idle"
    /\ stored # NoWallet
    /\ ~already_encrypted(stored.private_key)
    /\ script_data' = stored
    /\ spc' = "save"
    /\ UNCHANGED <<stored, generated, gpc, wallet_data, returned, migrations>>
    /\ UNCHANGED nonWalletVars

\* encrypt_user_private_key: the save (encrypt_existing_keys.py lines 56-69)
encrypt_user_private_key_save ==
    /\ spc = "save"
    /\ stored' = [public_key |-> script_data.public_key,
                  private_key |-> encrypt_private_key(script_data.private_key)]
    /\ migrations' = migrations + 1
    /\ spc' = "idle"
    /\ script_data' = NoWallet
    /\ UNCHANGED <<generated, gpc, wallet_data, returned>>
    /\ UNCHANGED nonWalletVars

NextWallet ==
    \/ legacy_wallet
    \/ create_wallet
    \/ get_wallet
    \/ get_wallet_save
    \/ encrypt_user_private_key
    \/ encrypt_user_private_key_save

----------------------------------------------------------------------------
(* Selling 100% of a token: the sell screen, its 100% button, execute_sell *)

NoSellAll == [stage |-> "idle", balance_raw |-> 0, decimals |-> 0,
              amount |-> 0, amount_lamports |-> 0, answer |-> "none"]

SellAllInit == sellAll = NoSellAll

\* process_sell_token_callback, inline.py lines 292-345: the balance shown,
\* get_token_balance's round(amount / 10**decimals, 2), is written into the
\* callback data of the 100% button
process_sell_token_callback ==
    /\ sellAll.stage \in {"idle", "too_small", "answered"}
    /\ \E balance_raw \in 0..MaxBalance, decimals \in 0..MaxDecimals :
         sellAll' = [NoSellAll EXCEPT !.stage = "screen",
                                      !.balance_raw = balance_raw,
                                      !.decimals = decimals,
                                      !.amount = Hundredths(balance_raw, decimals)]
    /\ UNCHANGED nonSellAllVars

\* process_sell_percent_callback on the 100% button, inline.py lines 188-235:
\* the amount of the callback data through to_lamports
sell_percent_100 ==
    /\ sellAll.stage = "screen"
    /\ LET amount_lamports == ToLamports(Amount("number", sellAll.amount, 2),
                                         sellAll.decimals).value
       IN sellAll' = [sellAll EXCEPT
                         !.stage = IF amount_lamports < 1 THEN "too_small"
                                   ELSE "execute_sell",
                         !.amount_lamports = amount_lamports]
    /\ UNCHANGED nonSellAllVars

\* execute_sell on that request, jupiter_service.py lines 673-706: an int
\* amount is the raw amount, compared with the raw balance on chain
sell_percent_100_execute_sell ==
    /\ sellAll.stage = "execute_sell"
    /\ sellAll' = [sellAll EXCEPT
                      !.stage = "answered",
                      !.answer = IF ExceedsBalance(sellAll.amount_lamports,
                                                   sellAll.balance_raw)
                                 THEN "insufficient" ELSE "sold"]
    /\ UNCHANGED nonSellAllVars

NextSellAll ==
    \/ process_sell_token_callback
    \/ sell_percent_100
    \/ sell_percent_100_execute_sell

----------------------------------------------------------------------------
(* handlers/export_keys.py: the export of the private key to the chat *)

\* a chat operation (answer, delete) succeeds or raises
ChatOutcomes == {"ok", "raises"}

ExportInit ==
    /\ export_state = "none"
    /\ epc = "idle"
    /\ key_messages = <<>>
    /\ warning_message = "none"
    /\ exported = 0

\* cmd_export_keys, lines 17-49: the state is set once the question is sent
cmd_export_keys ==
    /\ epc = "idle"
    /\ exported < MaxExports
    /\ \E answer \in ChatOutcomes :
         export_state' = IF answer = "ok" THEN "waiting_for_confirmation"
                         ELSE export_state
    /\ UNCHANGED <<epc, key_messages, warning_message, exported>>
    /\ UNCHANGED nonExportVars

\* process_export_cancellation, lines 98-113
process_export_cancellation ==
    /\ epc = "idle"
    /\ export_state = "waiting_for_confirmation"
    /\ export_state' = "none"
    /\ UNCHANGED <<epc, key_messages, warning_message, exported>>
    /\ UNCHANGED nonExportVars

\* process_export_confirmation, lines 51-60: export_private_key gives the key
\* or None
process_export_confirmation ==
    /\ epc = "idle"
    /\ export_state = "waiting_for_confirmation"
    /\ exported < MaxExports
    /\ exported' = exported + 1
    /\ warning_message' = "none"
    /\ \E private_key \in {"key", NoneVal} :
         epc' = IF private_key # NoneVal THEN "key_message" ELSE "no_key"
    /\ UNCHANGED <<export_state, key_messages>>
    /\ UNCHANGED nonExportVars

\* lines 61-67: the message with the key
export_key_message ==
    /\ epc = "key_message"
    /\ \E answer \in ChatOutcomes :
         IF answer = "ok"
         THEN /\ key_messages' = Append(key_messages, "shown")
              /\ epc' = "announce"
         ELSE /\ epc' = "except"
              /\ UNCHANGED key_messages
    /\ UNCHANGED <<export_state, warning_message, exported>>
    /\ UNCHANGED nonExportVars

\* lines 69-76: the question is deleted and the 30 seconds are announced
export_announce ==
    /\ epc = "announce"
    /\ \E delete \in ChatOutcomes, answer \in ChatOutcomes :
         IF delete = "ok" /\ answer = "ok"
         THEN /\ warning_message' = "shown"
              /\ epc' = "sleep"
         ELSE /\ epc' = "except"
              /\ UNCHANGED warning_message
    /\ UNCHANGED <<export_state, key_messages, exported>>
    /\ UNCHANGED nonExportVars

\* line 79: asyncio.sleep(30)
export_sleep ==
    /\ epc = "sleep"
    /\ epc' = "delete"
    /\ UNCHANGED <<export_state, key_messages, warning_message, exported>>
    /\ UNCHANGED nonExportVars

\* lines 80-86: both messages are deleted, then the last answer
export_delete_messages ==
    /\ epc = "delete"
    /\ \E key_delete \in ChatOutcomes, warning_delete \in ChatOutcomes,
          answer \in ChatOutcomes :
         /\ key_messages' =
              IF key_delete = "ok"
              THEN [key_messages EXCEPT ![Len(key_messages)] = "deleted"]
              ELSE key_messages
         /\ warning_message' =
              IF key_delete = "ok" /\ warning_delete = "ok" THEN "deleted"
              ELSE warning_message
         /\ epc' = IF key_delete = "ok" /\ warning_delete = "ok" /\ answer = "ok"
                   THEN "finally" ELSE "except"
    /\ UNCHANGED <<export_state, exported>>
    /\ UNCHANGED nonExportVars

\* lines 87-91: no key to show
export_no_key ==
    /\ epc = "no_key"
    /\ \E answer \in ChatOutcomes :
         epc' = IF answer = "ok" THEN "finally" ELSE "except"
    /\ UNCHANGED <<export_state, key_messages, warning_message, exported>>
    /\ UNCHANGED nonExportVars

\* lines 92-94: the error is logged and answered; the finally block follows
\* whether or not that answer raises
export_except ==
    /\ epc = "except"
    /\ epc' = "finally"
    /\ UNCHANGED <<export_state, key_messages, warning_message, exported>>
    /\ UNCHANGED nonExportVars

\* lines 95-97: state.clear(), and the handler has finished
export_finally ==
    /\ epc = "finally"
    /\ export_state' = "none"
    /\ epc' = "idle"
    /\ UNCHANGED <<key_messages, warning_message, exported>>
    /\ UNCHANGED nonExportVars

NextExport ==
    \/ cmd_export_keys
    \/ process_export_cancellation
    \/ process_export_confirmation
    \/ export_key_message
    \/ export_announce
    \/ export_sleep
    \/ export_delete_messages
    \/ export_no_key
    \/ export_except
    \/ export_finally

Init ==
    /\ SwapInit /\ TransferInit /\ ClientInit /\ QueryInit /\ UnitsInit
    /\ HandlerInit /\ ConcurrentInit /\ WithdrawInit
    /\ WalletInit
    /\ SellAllInit
    /\ ExportInit

NextTransfer ==
    \/ confirm_withdrawal
    \/ send_sol
    \/ send_spl_token
    \/ send_sol_blockhash
    \/ send_sol_submit
    \/ send_spl_token_supply
    \/ send_spl_token_account
    \/ send_spl_token_blockhash
    \/ send_spl_token_submit
    \/ send_spl_token_confirm

SpecTransfer == Init /\ [][NextTransfer]_vars

SpecClient == Init /\ [][NextClient]_vars

SpecQuery == Init /\ [][NextQuery]_vars

SpecUnits == Init /\ [][NextUnits]_vars

SpecHandler == Init /\ [][NextHandler]_vars

SpecConcurrent == Init /\ [][NextConcurrent]_vars

SpecWithdraw == Init /\ [][NextWithdraw]_vars

SpecWallet == Init /\ [][NextWallet]_vars

SpecSellAll == Init /\ [][NextSellAll]_vars

SpecExport == Init /\ [][NextExport]_vars

\* the steps of a handler that has started; what the user sends is not forced
ExportHandlerRuns ==
    \/ export_key_message
    \/ export_announce
    \/ export_sleep
    \/ export_delete_messages
    \/ export_no_key
    \/ export_except
    \/ export_finally

\* every handler that has started runs on to its end
SpecExportFair == SpecExport /\ WF_vars(ExportHandlerRuns)

Next ==
    \/ get_best_route
    \/ get_best_route_request
    \/ perform_swap
    \/ execute_swap
    \/ execute_sell
    \/ execute_sell_balance
    \/ execute_sell_route
    \/ get_quote
    \/ get_swap_transaction
    \/ send_swap_transaction_sign
    \/ send_swap_transaction_submit
    \/ send_swap_transaction_poll
    \/ execute_swap_final_poll

Spec == Init /\ [][Next]_vars

\* every await of the call is answered or times out, and the event loop
\* resumes the coroutine
SpecFair == Spec /\ WF_vars(Next)

TypeOK ==
    /\ pc \in {"idle", "route", "balance", "sell_route", "quote", "build", "sign",
               "submit", "poll", "final_poll", "done"}
    /\ attempt \in 0..MaxRetryBound

----------------------------------------------------------------------------
(* Properties *)

SwapEntries == {"perform_swap", "execute_swap", "execute_sell"}
OutcomeEntries == {"execute_swap", "execute_sell"}

RangeOf(seq) == {seq[i] : i \in 1..Len(seq)}

\* a submission of this call returned a signature
Submitted == \E i \in 1..Len(submitLog) : submitLog[i].answer = "ok"

\* the signature of the transaction whose submission succeeded
SubmittedSignature ==
    LET i == CHOOSE k \in 1..Len(submitLog) : submitLog[k].answer = "ok"
    IN SigNames[submitLog[i].tx]

SwapDone == pc = "done" /\ entry \in OutcomeEntries

\* C1: a swap that was submitted and whose every status poll answered
\* "still pending" returns an Unconfirmed outcome carrying the signature,
\* reported neither as Success nor as Failed.
C1_PendingIsUnconfirmed ==
    (SwapDone /\ Submitted /\ pollLog # <<>> /\ RangeOf(pollLog) = {"pending"})
        => /\ result.kind = "Unconfirmed"
           /\ result.text = <<SubmittedSignature>>
           /\ Reported(result) \notin {"Success", "Failed"}

\* C2: a swap whose status poll reports an on-chain error returns a Failed
\* outcome with the error detail, never an explorer link, and nothing more is
\* built or submitted in that call.
C2_OnChainErrorIsFailed ==
    (SwapDone /\ Submitted /\ "err" \in RangeOf(pollLog))
        => /\ result.kind = "Error"
           /\ result.reason = "OnChainError"
           /\ Reported(result) = "Failed"
           /\ Len({i \in 1..Len(submitLog) : submitLog[i].answer = "ok"}) = 1

\* the scenario of C3: quote, build and signing succeed in every attempt and
\* every submission is refused
OnlySubmissionFails ==
    /\ entry \in SwapEntries
    /\ pc = "done"
    /\ buildLog # <<>>
    /\ KeypairFromBase58(args.cred)
    /\ \A i \in 1..Len(quoteLog) : quoteLog[i].answer = "ok"
    /\ \A i \in 1..Len(buildLog) : buildLog[i].answer = "ok"
    /\ \A i \in 1..Len(submitLog) : submitLog[i].answer = "rpc_error"

\* C3: when every submission attempt fails (the other steps succeeding), the
\* executor submits exactly max_retries times, each time the transaction built
\* in that same attempt, so builds = submissions, and returns
\* Failed{SubmissionFailed}.
C3_SubmissionRetriedMaxRetries ==
    OnlySubmissionFails
        => /\ Len(submitLog) = args.max_retries
           /\ Len(buildLog) = Len(submitLog)
           /\ \A i \in 1..Len(submitLog) :
                /\ submitLog[i].tx = i
                /\ buildLog[i].quote # 0
                /\ \A j \in 1..Len(buildLog) : j # i => buildLog[j].quote # buildLog[i].quote
           /\ result.kind \in {"Error", "Raised"}
           /\ result.reason = "SubmissionFailed"

C3_Witness ==
    /\ OnlySubmissionFails
    /\ entry = "execute_swap"
    /\ args.max_retries = DefaultMaxRetries
    /\ Len(submitLog) = DefaultMaxRetries

\* execute_sell has read the balance
BalanceKnown == entry = "execute_sell" /\ sell.cred # NoneVal /\ pc # "balance"

RequestedRaw == RawAmount(sell.amount, sell.decimals)

NoQuote ==
    /\ entry \in SwapEntries
    /\ quoteLog # <<>>
    /\ \A i \in 1..Len(quoteLog) :
         quoteLog[i].path = "_get_quote" => quoteLog[i].answer # "ok"
    /\ \A i \in 1..Len(quoteLog) :
         quoteLog[i].path = "get_best_route" =>
             (quoteLog[i].answer = "ok" => Len(quoteLog) > 1 \/ pc # "done")

C6_SlippageValidated ==
    \A i \in 1..Len(quoteLog) : validate_slippage(quoteLog[i].slippageBps)

\* C7: a swap whose submission returned signature s and whose polls answered
\* confirmed returns the link https://solscan.io/tx/ followed by s.
C7_ExplorerUrl ==
    (SwapDone /\ Submitted /\ RangeOf(pollLog) = {"confirmed"})
        => /\ result.kind = "Link"
           /\ Reported(result) = "Success"
           /\ result.text = <<SOLSCAN_TX_PREFIX, SubmittedSignature>>
           /\ LastSegment(result.text) = <<SubmittedSignature>>

C7_Witness ==
    /\ SwapDone
    /\ entry = "execute_sell"
    /\ Submitted
    /\ RangeOf(pollLog) = {"confirmed"}
    /\ result.kind = "Link"

\* C8: a transfer goes through Building, Signing, Submitting and Confirming in
\* that order and is reported as succeeded only after its signature was polled
\* and found confirmed.
C8_SuccessOnlyAfterConfirmed ==
    report = "success" =>
        /\ confirmed
        /\ phases = <<"Building", "Signing", "Submitting", "Confirming">>

\* the destination of the transfer is not a well-formed address
BadDestination ==
    /\ caller \in {"send_sol", "send_spl_token", "confirm_withdrawal"}
    /\ targs # NoTransferArgs
    /\ targs.to_address # NoneVal
    /\ ~PublicKey(targs.to_address)

\* the arguments checked before the destination are in order
CredentialAndAmountOk ==
    IF targs.token_mint = NoneVal
    THEN SolKeypair(targs.cred) /\ targs.amount > 0
    ELSE SplKeypair(targs.cred)

\* C9: with a malformed destination send_sol and send_spl_token fail without
\* any RPC call; the error is the invalid-recipient error (when the credential
\* and the amount, which are checked first, are in order).
C9_BadRecipientNoRpc ==
    BadDestination
        => /\ tpc = "done"
           /\ transferResult.kind = "Raised"
           /\ rpcLog = <<>>
           /\ sent = <<>>
           /\ CredentialAndAmountOk => transferResult.reason = "InvalidRecipientAddress"

C9_Witness ==
    /\ BadDestination
    /\ caller = "send_spl_token"
    /\ CredentialAndAmountOk
    /\ transferResult.reason = "InvalidRecipientAddress"

\* C10: a token transfer submits one transaction: account creation followed by
\* the transfer when the recipient's associated account does not exist, the
\* transfer alone when it exists.
C10_CreateAndTransferTogether ==
    /\ Len(sent) <= 1
    /\ \A i \in 1..Len(sent) :
         targs.token_mint # NoneVal =>
             sent[i].instructions =
                 IF destAccount THEN <<"spl_transfer">>
                 ELSE <<"create_associated_token_account", "spl_transfer">>

C10_Witness ==
    /\ Len(sent) = 1
    /\ targs.token_mint # NoneVal
    /\ ~destAccount
    /\ sent[1].instructions = <<"create_associated_token_account", "spl_transfer">>
    /\ transferResult.kind = "Signature"

----------------------------------------------------------------------------
(* Properties of the retry helpers *)

HelperDone(fn) == cpc = "done" /\ request.fn = fn

AllAnswersIn(S) == \A i \in 1..Len(answers) : answers[i] \in S

\* C11: send_transaction_with_retry makes at most max_retries submission
\* attempts; when all of them fail, with rate-limit errors or with other
\* errors, it raises the submission failure; it never returns normally
\* without a signature.
C11_ExhaustionRaises ==
    (HelperDone("send_transaction_with_retry") /\ request.max_retries >= 1)
        => /\ Len(answers) <= request.max_retries
           /\ outcome.kind = "Returned" => outcome.value = "signature"
           /\ AllAnswersIn({"rate_limit", "error"})
                => outcome = HelperRaised("SubmissionFailed")

\* C12: when each of the max_retries polls answers, without error, that the
\* signature is not confirmed, confirm_transaction_with_retry returns False
\* after exactly max_retries polls and does not raise, whichever shape the
\* responses have.
C12_PendingReturnsFalse ==
    (/\ HelperDone("confirm_transaction_with_retry")
     /\ request.max_retries >= 1
     /\ AllAnswersIn(StillPending))
        => /\ outcome = HelperReturned("False")
           /\ Len(answers) = request.max_retries

\* C13: get_blockhash_with_retry makes at most max_retries attempts (3 by
\* default), every attempt before the last one made has failed, it returns
\* the blockhash of the first attempt that succeeds, it raises once
\* max_retries attempts have failed, and with max_retries >= 1 it ends in one
\* of these two ways.
C13_BlockhashRetried ==
    request.fn = "get_blockhash_with_retry"
        => /\ Len(answers) <= request.max_retries
           /\ \A i \in 1..(Len(answers) - 1) : answers[i] # "blockhash"
           /\ (cpc = "loop") => AllAnswersIn(BlockhashAnswers \ {"blockhash"})
           /\ (cpc = "done" /\ request.max_retries >= 1)
                => \/ /\ outcome = HelperReturned("recent_blockhash")
                      /\ answers[Len(answers)] = "blockhash"
                   \/ /\ outcome = HelperRaised("AnchorUnavailable")
                      /\ Len(answers) = request.max_retries
                      /\ AllAnswersIn(BlockhashAnswers \ {"blockhash"})

\* the default three attempts all fail, on a malformed response as well as on
\* an RPC error, and the helper raises
C13_Witness ==
    /\ HelperDone("get_blockhash_with_retry")
    /\ request.max_retries = DefaultBlockhashRetries
    /\ answers = <<"rpc_error", "bad_format", "rpc_error">>
    /\ sleeps = <<1, 1>>
    /\ outcome = HelperRaised("AnchorUnavailable")

----------------------------------------------------------------------------
(* Properties of the read-only queries *)

\* answers that are an error, or a response the query cannot read
FaultyAnswers ==
    {"rpc_error", "http_error", "error_body", "exception", "empty", "other",
     "object_bad_value", "dict_no_value", "dict_error", "object_bad_amount",
     "base64", "parsed_no_info", "no_token_amount", "no_account_key",
     "amount_not_int"}

BalanceFault ==
    \/ ~lastQuery.address_ok
    \/ \E i \in 1..Len(lastQuery.answered) : lastQuery.answered[i] \in FaultyAnswers

\* C14: the balance queries (get_sol_balance and both get_token_balance)
\* never raise; on an RPC error, a malformed address or a response of an
\* unexpected or unparseable shape they return the balance 0.
C14_BalanceNeverRaises ==
    lastQuery.fn # "none"
        => /\ ~lastQuery.returned.raised
           /\ BalanceFault => lastQuery.returned.balance = 0

\* the token-holding query reads the decimals, then an amount that is no
\* integer, and returns 0
C14_Witness ==
    /\ lastQuery.fn = "JupiterService.get_token_balance"
    /\ lastQuery.answered = <<"ok", "amount_not_int">>
    /\ lastQuery.rpc = <<"getTokenSupply", "getTokenAccountsByOwner">>
    /\ lastQuery.returned = Balance(0)

\* C15: once a call of get_token_decimals for an asset has fetched the
\* decimals successfully, every later call for that asset returns the same
\* value and sends no RPC query.
C15_DecimalsCached ==
    \A i, j \in 1..Len(decimalsCalls) :
        (/\ i < j
         /\ decimalsCalls[i].token = decimalsCalls[j].token
         /\ decimalsCalls[i].answer = "ok")
            => /\ decimalsCalls[j].returned.value = decimalsCalls[i].returned.value
               /\ decimalsCalls[j].rpc = <<>>

\* C16: a call of get_token_decimals whose query fails returns 9 and does
\* not raise, and the fallback is not remembered: a call whose query
\* succeeds returns the decimals the RPC reported, whatever the calls before
\* it returned.
C16_FallbackNotRemembered ==
    \A j \in 1..Len(decimalsCalls) :
        /\ decimalsCalls[j].answer \in DecimalsFailures
             => decimalsCalls[j].returned = [raised |-> FALSE, value |-> FallbackDecimals]
        /\ decimalsCalls[j].answer = "ok"
             => decimalsCalls[j].returned =
                    [raised |-> FALSE, value |-> decimalsCalls[j].carried]

\* an exception in the first call, then a successful query for the same asset
C16_Witness ==
    /\ Len(decimalsCalls) = 2
    /\ decimalsCalls[1].token = decimalsCalls[2].token
    /\ decimalsCalls[1].answer = "exception"
    /\ decimalsCalls[1].returned.value = FallbackDecimals
    /\ decimalsCalls[2].answer = "ok"
    /\ decimalsCalls[2].returned.value = 2

----------------------------------------------------------------------------
(* Properties of the unit conversion *)

\* C19: for every numeric amount <= 0 and every decimals >= 0, to_lamports
\* returns 0 and does not raise.
C19_NonPositiveIsZero ==
    (upc # "idle" /\ amountIn.kind = "number" /\ amountIn.coef <= 0)
        => (~lamports.raised /\ lamports.value = 0)

\* a negative amount with fractional digits, for an asset with decimals
C19_Witness ==
    /\ upc = "converted"
    /\ amountIn.kind = "number"
    /\ amountIn.coef < 0
    /\ amountIn.digits > 0
    /\ lamports = [raised |-> FALSE, value |-> 0, decimals |-> MaxDecimals]

\* amount - from_lamports(to_lamports(amount, decimals), decimals), as a
\* count of 10^-(digits + decimals)
RoundTripLoss ==
    amountIn.coef * Pow10(tokens.decimals) - tokens.value * Pow10(amountIn.digits)

\* one smallest unit, 10^-decimals, in the same count
SmallestUnit == Pow10(amountIn.digits)

----------------------------------------------------------------------------
(* Properties of the quote requests *)

\* C17: no quote request reaches the aggregator with an output asset that is
\* not a well-formed address: every quoting path validates it first and
\* fails without a network call.
C17_OutputAssetValidated ==
    \A i \in 1..Len(quoteLog) : PublicKey(quoteLog[i].outputMint)

\* C18: every quote request sent to the aggregator, by get_best_route and by
\* _get_quote, on every attempt, carries the configured platform-fee basis
\* points and platform-fee account, whatever the caller passed.
C18_FeeOnEveryQuote ==
    \A i \in 1..Len(quoteLog) :
        /\ quoteLog[i].platformFeeBps = JUPITER_PLATFORM_FEE_BPS
        /\ quoteLog[i].platformFeeAccount = JUPITER_PLATFORM_FEE_ACCOUNT

\* a sell: the route preview, the quote of the first attempt and the quote
\* of the retry
C18_Witness ==
    /\ entry = "execute_sell"
    /\ Len(quoteLog) = 3
    /\ quoteLog[1].path = "get_best_route"
    /\ quoteLog[2].path = "_get_quote"
    /\ quoteLog[3].path = "_get_quote"
    /\ quoteLog[3].slippageBps # quoteLog[1].slippageBps \/ quoteLog[3].amount > 0

----------------------------------------------------------------------------
(* Properties of the swap executor: retries, ordering, amounts *)

\* the quote requests of perform_swap (those of _get_quote), as indices of quoteLog
SwapQuotes == {i \in 1..Len(quoteLog) : quoteLog[i].path = "_get_quote"}

BadCredential == args.cred # NoneVal /\ ~KeypairFromBase58(args.cred)

\* C23: when signing fails because the credential cannot be decrypted or is
\* no keypair encoding, the swap returns Failed at once: once a built
\* transaction has reached signing with such a credential, the call makes no
\* further quote, build, sign or submit attempt.
C23_BadCredentialNotRetried ==
    (/\ BadCredential
     /\ Len(buildLog) > 0
     /\ buildLog[Len(buildLog)].answer = "ok")
        => /\ pc \in {"sign", "done"}
           /\ Len(buildLog) = 1
           /\ Cardinality(SwapQuotes) = 1
           /\ pc = "done" => result.kind \in {"Error", "Raised"}

\* C24: when the quote step of a swap fails, the executor returns Failed
\* immediately: that failed quote request is the only one of the call.
C24_QuoteNotRetried ==
    \A i \in SwapQuotes :
        ~QuoteUsable(quoteLog[i].answer)
            => /\ SwapQuotes = {i}
               /\ pc = "done"
               /\ result.kind \in {"Error", "Raised"}

\* C25: a quote is single-use: no quote is presented to the swap-build
\* endpoint more than once, every quote presented is a usable answer of
\* _get_quote, and the quote an attempt is about to build from is the one
\* requested last, in that attempt.
C25_QuoteSingleUse ==
    /\ \A i, j \in 1..Len(buildLog) :
         i # j => buildLog[i].quote # buildLog[j].quote
    /\ \A i \in 1..Len(buildLog) :
         /\ buildLog[i].quote \in SwapQuotes
         /\ QuoteUsable(quoteLog[buildLog[i].quote].answer)
    /\ pc = "build" => quote_data = Len(quoteLog)

\* the build of the first attempt failed and the retry built from a new quote
C25_Witness ==
    /\ Len(buildLog) = 2
    /\ buildLog[1].answer = "http_error"
    /\ buildLog[1].quote < buildLog[2].quote
    /\ quoteLog[buildLog[1].quote].answer = "ok"

\* C27: the steps of a swap are strictly ordered and none is skipped: what
\* is submitted was signed, what is signed was built, what is built from was
\* quoted successfully, each attempt does each step at most once, and a
\* status poll follows only a submission that returned a signature.
C27_StepsOrdered ==
    /\ \A i \in 1..Len(submitLog) : submitLog[i].tx \in RangeOf(signLog)
    /\ \A i \in 1..Len(signLog) :
         /\ signLog[i] \in 1..Len(buildLog)
         /\ buildLog[signLog[i]].answer = "ok"
    /\ \A i \in 1..Len(buildLog) :
         /\ buildLog[i].quote \in 1..Len(quoteLog)
         /\ quoteLog[buildLog[i].quote].answer = "ok"
    /\ Len(submitLog) <= Len(signLog)
    /\ Len(signLog) <= Len(buildLog)
    /\ Len(buildLog) <= Cardinality(SwapQuotes)
    /\ Cardinality(SwapQuotes) <= attempt + 1
    /\ Len(pollLog) > 0
         => /\ Len(submitLog) > 0
            /\ submitLog[Len(submitLog)].answer = "ok"
            /\ signature # <<>>
    /\ pc = "poll" => submitLog[Len(submitLog)].answer = "ok"

\* the first submission failed; the second attempt went through quote, build,
\* signing and submission again and was polled
C27_Witness ==
    /\ Len(submitLog) = 2
    /\ submitLog[1].answer = "rpc_error"
    /\ submitLog[2].answer = "ok"
    /\ Len(signLog) = 2
    /\ Len(buildLog) = 2
    /\ Len(pollLog) = 1

\* the assets the code flags for the widened slippage (lines 214 and 478)
LowLiquidityAssets == {BONK_MINT}

\* the asset a swap trades against SOL
TradedAsset(q) == IF q.inputMint = SOL_MINT THEN q.outputMint ELSE q.inputMint

\* C28: the slippage of a swap's quote is 1.0% for every asset outside the
\* low-liquidity allow-list and the fixed widened value for the assets in
\* it, for buys (execute_swap) and for sells (execute_sell).
C28_SlippagePolicy ==
    entry \in {"execute_swap", "execute_sell"}
        => \A i \in 1..Len(quoteLog) :
             quoteLog[i].slippageBps =
                 IF TradedAsset(quoteLog[i]) \in LowLiquidityAssets
                 THEN BonkSlippage ELSE DEFAULT_SLIPPAGE

\* C29: every amount execute_sell sends to the aggregator is at most
\* availableBalance - minimumBuffer, with minimumBuffer =
\* floor(0.01 * 10^decimals), and so never exceeds the available balance.
C29_SellAmountCapped ==
    entry = "execute_sell"
        => \A i \in 1..Len(quoteLog) :
             /\ quoteLog[i].amount <= sell.balance - MinBalance(sell.decimals)
             /\ quoteLog[i].amount <= sell.balance

\* the whole balance was requested and the amount quoted is the balance less
\* the buffer
C29_Witness ==
    /\ entry = "execute_sell"
    /\ Len(quoteLog) >= 2
    /\ sell.requested = sell.balance
    /\ MinBalance(sell.decimals) > 0
    /\ quoteLog[2].amount = sell.balance - MinBalance(sell.decimals)
    /\ quoteLog[2].amount > 0

\* C30: every amount the sell path sends to the aggregator is a positive
\* integer, whatever the token balance and the requested amount.
C30_SellAmountPositive ==
    entry = "execute_sell"
        => \A i \in 1..Len(quoteLog) : quoteLog[i].amount > 0

\* C26: a signed transaction is never retried in place: the same signed
\* transaction bytes are submitted to the RPC at most once.
C26_NoResubmission ==
    request.fn = "send_transaction_with_retry"
        => \A i, j \in 1..Len(answers) :
             i # j => TxBytesOfAttempt(i) # TxBytesOfAttempt(j)

\* C22: every swap a handler (buy, sell by amount, sell by percent) sent for
\* execution and that has ended left exactly one ledger record, and that record
\* carries the outcome: success with the signature of the link, or error with
\* the reason.
CarriesOutcome(rec, r) ==
    IF Reported(r) = "Success"
    THEN rec.status = "success" /\ rec.tx_signature = LastSegment(r.text)
    ELSE rec.status = "error" /\ rec.error = r.reason

C22_OneLedgerRecord ==
    \A i \in 1..Len(executions) :
        executions[i].result # NoResult
            => /\ Len(executions[i].records) = 1
               /\ CarriesOutcome(executions[i].records[1], executions[i].result)

\* C21: two swaps running concurrently for different users share no mutable
\* state: under every interleaving of their steps, when a user's perform_swap
\* has ended its outcome is the one the call has when run alone against the
\* external answers it received, and the shared instance's fields are as
\* __init__ left them.
C21_IndependentExecutions ==
    /\ service = ServiceFields
    /\ \A u \in Users :
          position[u] = "done"
              => outcomes[u] = RunAlone(calls[u].args, calls[u].wallet, 0, responses[u])

\* both calls ended after overlapping in time, one with a signature and the
\* other with an error after a retry
C21_Witness ==
    /\ overlapped
    /\ \A u \in Users : position[u] = "done"
    /\ outcomes[1].kind = "Signature"
    /\ outcomes[2].kind = "Raised"
    /\ Len(responses[2]) > 3

\* C31: send_sol rejects the credential only when neither the base-58 decoding
\* nor the hex decoding yields a 64-byte secret key; a key valid in the second
\* encoding is accepted even when the first decoding gives bytes of another length.
C31_EitherEncodingAccepted ==
    (/\ caller \in {"send_sol", "confirm_withdrawal"}
     /\ targs.token = "SOL"
     /\ tpc = "done"
     /\ transferResult = Failed("Raised", "InvalidCredentialFormat"))
        => (B58DecodeLen(targs.cred) # 64 /\ HexDecodeLen(targs.cred) # 64)

\* C32: within one perform_swap call, once a submission has returned a
\* signature, no further transaction is built, signed or submitted, whatever
\* the status poll answers: no step changes the build, sign and submit logs
\* after an accepted submission, so at most one submission yields a signature.
SignatureObtained == \E i \in 1..Len(submitLog) : SubmitAccepted(submitLog[i].answer)

C32_OneSignaturePerCall ==
    [][SignatureObtained => UNCHANGED <<quoteLog, buildLog, signLog, submitLog>>]_vars

\* a perform_swap with attempts left returned the signature of its only
\* submission after the status poll reported an on-chain error
C32_Witness ==
    /\ entry = "perform_swap"
    /\ pc = "done"
    /\ MoreAttempts(attempt, args.max_retries)
    /\ Len(submitLog) = 1
    /\ SignatureObtained
    /\ pollLog = <<"err">>
    /\ result = Returned("Signature", signature)

\* C33: for max_retries >= 1 every perform_swap call ends, after at most
\* max_retries attempts, either returning a non-empty signature or raising; it
\* never returns without a signature, so execute_swap never builds an explorer
\* link for a missing signature.
PerformSwapCalled == args.max_retries >= 1

AttemptsBounded ==
    PerformSwapCalled
        => (attempt < args.max_retries /\ Cardinality(SwapQuotes) <= args.max_retries)

EndsWithSignatureOrError ==
    pc = "done"
        => /\ entry = "perform_swap"
                => \/ result.kind = "Signature" /\ result.text # <<>>
                   \/ result.kind = "Raised"
           /\ (entry = "execute_swap" /\ result.kind = "Link")
                => LastSegment(result.text) # <<>>

C33_PerformSwapTerminates ==
    /\ [](AttemptsBounded /\ EndsWithSignatureOrError)
    /\ PerformSwapCalled ~> (pc = "done")

\* a perform_swap with more than one attempt allowed used all of them and raised
C33_Witness ==
    /\ entry = "perform_swap"
    /\ pc = "done"
    /\ args.max_retries > 1
    /\ Cardinality(SwapQuotes) = args.max_retries
    /\ result.kind = "Raised"

\* C34: the swap execute_swap executes has the input asset and the output
\* asset of the route it was given: every quote perform_swap requests for it
\* is for route.inputMint -> route.outputMint (token -> SOL for a sell route,
\* SOL -> token for a buy route).
C34_RouteDirectionKept ==
    entry = "execute_swap"
        => \A i \in SwapQuotes :
              /\ quoteLog[i].inputMint = route.inputMint
              /\ quoteLog[i].outputMint = route.outputMint

\* C35: for one confirmed withdrawal (one token, amount and recipient held in
\* the conversation state) at most one transfer is submitted, even when the
\* confirm callback is delivered twice and the second delivery is handled while
\* the first transfer is awaiting the RPC: no two submitted transfers belong to
\* the same confirmation.
C35_OneTransferPerConfirmation ==
    \A i, j \in 1..Len(submitted) :
        submitted[i].confirmation = submitted[j].confirmation => i = j

\* C36: after any sequence of withdraw handlers, stale buttons included, every
\* transfer confirm_withdrawal submits has a positive amount that is at most the
\* balance recorded in the state for the selected token, and goes to the
\* address entered for that selection (amount and address were entered after
\* the token was selected).
C36_TransferMatchesSelection ==
    \A i \in 1..Len(submitted) :
        /\ submitted[i].amount > 0
        /\ submitted[i].amount <= submitted[i].token_balance
        /\ submitted[i].entered.address
        /\ submitted[i].entered.amount

\* C37: after any sequence and interleaving of create_wallet, get_wallet (with
\* its encrypt-on-read migration) and encrypt_user_private_key, the stored
\* private key is never encrypted twice, and what get_wallet returns is the
\* plaintext key as it was generated: no encryption layer left, and the
\* private key of the pair whose public key the record carries.
C37_EncryptedOnce ==
    /\ stored # NoWallet
          => /\ stored.private_key.layers <= 1
             /\ stored.private_key.key = stored.public_key
    /\ \A w \in returned \ {NoWallet} :
          /\ w.private_key.layers = 0
          /\ w.private_key.key = w.public_key
          /\ w.public_key \in 1..generated

\* both migrations read the unencrypted legacy key and both saved, and
\* get_wallet returned the key
C37_Witness ==
    /\ migrations = 2
    /\ generated = 1
    /\ stored.private_key = KeyText(1, 1)
    /\ returned \ {NoWallet} = {[public_key |-> 1, private_key |-> KeyText(1, 0)]}

\* C38: selling 100% of a token never requests more than the balance on
\* chain: the raw amount made from the displayed balance (rounded to two
\* decimal places) by to_lamports is at most the raw balance, so execute_sell
\* does not answer that the tokens are insufficient.
C38_SellAllWithinBalance ==
    sellAll.stage \in {"execute_sell", "answered"}
        => /\ sellAll.amount_lamports <= sellAll.balance_raw
           /\ sellAll.answer # "insufficient"

\* C39: every chat message that carries an exported private key is
\* eventually deleted, on every path of process_export_confirmation after
\* the key message has been sent, including the paths where a later chat
\* operation raises.
C39_KeyMessageDeleted ==
    \A i \in 1..MaxExports :
        (Len(key_messages) >= i /\ key_messages[i] = "shown")
            ~> (Len(key_messages) >= i /\ key_messages[i] = "deleted")

====
